---- MODULE Spec2Model ----
(***************************************************************************)
(* Model of the authenticated-request subsystem of n8n-nodes-docusign:     *)
(*   - the JWT token cache of the DocuSignApi credential                   *)
(*     (getOrRefreshAccessToken / generateJWT / getAccessToken),           *)
(*   - the retry loop of docuSignApiRequest and the message of the error   *)
(*     it raises (getErrorMessage),                                        *)
(*   - the page loop of docuSignApiRequestAllItems,                        *)
(*   - the webhook handler of DocuSignTrigger,                             *)
(*   - the pure helpers (verifyWebhookSignature, validateField,            *)
(*     isValidUrl, getBaseUrl), applied one call at a time.                *)
(* Strings that the code concatenates or parses are sequences of           *)
(* one-character strings, so that joins and parses are computed.           *)
(***************************************************************************)
EXTENDS Integers, Sequences, FiniteSets, TLC

VARIABLES now, tokenCache, lastW, calls, issued,
          req,
          pag,
          hook,
          fn

vars == <<now, tokenCache, lastW, calls, issued, req, pag, hook, fn>>

----------------------------------------------------------------------------
(* Bounds of the model *)

\* the clock stops advancing by Tick at this many milliseconds
MaxNow == 1500

\* number of tokens the token endpoint issues in one behaviour
MaxTokens == 2

----------------------------------------------------------------------------
(* Token cache (credentials file) *)

TOKEN_EXPIRY_BUFFER_MS == 5 * 60 * 1000

DEFAULT_EXPIRES_IN == 3600

JWT_LIFETIME_S == 3600

\* the clock is read at this granularity: milliseconds one Tick adds
TickSteps == {500}

Procs == {1, 2}

\* (integrationKey, userId, authServer) of the credentials in use. The first
\* two are free text and may contain the ':' the cache key is joined with;
\* the auth server is REGION_URLS[...].auth or .authDemo, which are ':'-free
Creds == { << <<"a">>, <<"b", ":", "c">>, <<"account-d.docusign.com">> >>,
           << <<"a", ":", "b">>, <<"c">>, <<"account-d.docusign.com">> >>,
           << <<"a">>, <<"b", ":", "c">>, <<"account.docusign.com">> >> }

\* expires_in values (seconds) the token endpoint answers with: a lifetime
\* shorter than the refresh buffer, and one that outlives it by one second
ExpiresInVals == {200, 301}

\* the expires_in values answered while two callers interleave
ExpiresInRace == {301}

NoJwt == [typ |-> "", alg |-> "", iss |-> <<>>, sub |-> <<>>, aud |-> <<>>,
          iat |-> 0, exp |-> 0, scope |-> "", assertion |-> <<>>]

NoResp == [kind |-> "none", access_token |-> 0, hasExp |-> FALSE, expires_in |-> 0,
           json |-> FALSE, error_description |-> <<>>]

IdleCall == [pc |-> "idle", ik |-> <<>>, uid |-> <<>>, host |-> <<>>,
             jwt |-> NoJwt, resp |-> NoResp, result |-> 0, nreq |-> 0,
             error |-> <<>>]

\* s.includes(w): w occurs in s as a substring
Includes(s, w) ==
    \E i \in 0..(Len(s) - Len(w)) : SubSeq(s, i + 1, i + Len(w)) = w

\* let errorMessage = 'DocuSign authentication failed'
AUTH_FAILED ==
    << "D", "o", "c", "u", "S", "i", "g", "n", " ", "a", "u", "t", "h",
       "e", "n", "t", "i", "c", "a", "t", "i", "o", "n", " ", "f", "a",
       "i", "l", "e", "d" >>

\* 'DocuSign returned invalid response format'
INVALID_FORMAT ==
    << "D", "o", "c", "u", "S", "i", "g", "n", " ", "r", "e", "t", "u",
       "r", "n", "e", "d", " ", "i", "n", "v", "a", "l", "i", "d", " ",
       "r", "e", "s", "p", "o", "n", "s", "e", " ", "f", "o", "r", "m",
       "a", "t" >>

\* 'DocuSign response missing access token'
MISSING_TOKEN ==
    << "D", "o", "c", "u", "S", "i", "g", "n", " ", "r", "e", "s", "p",
       "o", "n", "s", "e", " ", "m", "i", "s", "s", "i", "n", "g", " ",
       "a", "c", "c", "e", "s", "s", " ", "t", "o", "k", "e", "n" >>

consent_required ==
    << "c", "o", "n", "s", "e", "n", "t", "_", "r", "e", "q", "u", "i",
       "r", "e", "d" >>

invalid_grant ==
    << "i", "n", "v", "a", "l", "i", "d", "_", "g", "r", "a", "n", "t" >>

invalid_request ==
    << "i", "n", "v", "a", "l", "i", "d", "_", "r", "e", "q", "u", "e",
       "s", "t" >>

\* const safeErrors = ['consent_required', 'invalid_grant', 'invalid_request']
safeErrors == {consent_required, invalid_grant, invalid_request}

\* error_description values of a refusal: none, the three OAuth codes, a
\* code the list does not name, and a listed code followed by server detail
ErrorDescriptions ==
    { <<>>, consent_required, invalid_grant, invalid_request,
      << "s", "e", "r", "v", "e", "r", "_", "e", "r", "r", "o", "r" >>,
      invalid_grant \o
        << ":", " ", "d", "b", "7" >> }

\* the refusals answered while two callers interleave
ErrorDescriptionsRace == { <<>> }

\* const cacheKey = `${integrationKey}:${userId}:${authServer}`
CacheKey(ik, uid, host) == ik \o <<":">> \o uid \o <<":">> \o host

CacheValidAtBoundary(cache, key, t) ==
    /\ key \in DOMAIN cache
    /\ cache[key].expiresAt >= t + TOKEN_EXPIRY_BUFFER_MS

\* cached && cached.expiresAt > Date.now() + TOKEN_EXPIRY_BUFFER_MS
CacheValid(cache, key, t) ==
    /\ key \in DOMAIN cache
    /\ cache[key].expiresAt > t + TOKEN_EXPIRY_BUFFER_MS

CacheSetAlone(cache, key, entry) == [k \in {key} |-> entry]

CacheSetIfAbsent(cache, key, entry) ==
    [k \in (DOMAIN cache) \cup {key} |-> IF k \in DOMAIN cache THEN cache[k] ELSE entry]

\* tokenCache.set(cacheKey, entry)
CacheSet(cache, key, entry) ==
    [k \in (DOMAIN cache) \cup {key} |-> IF k = key THEN entry ELSE cache[k]]

\* Math.floor(Date.now() / 1000)
EpochSeconds(t) == t \div 1000

generateJWTLifetimeInMs(ik, uid, host, t) ==
    LET header  == [typ |-> "JWT", alg |-> "RS256"]
        payload == [iss |-> ik, sub |-> uid, aud |-> host, iat |-> EpochSeconds(t),
                    exp |-> EpochSeconds(t + JWT_LIFETIME_S),
                    scope |-> "signature impersonation"]
        signatureInput == <<[base64url |-> header], ".", [base64url |-> payload]>>
    IN [typ |-> header.typ, alg |-> header.alg, iss |-> payload.iss,
        sub |-> payload.sub, aud |-> payload.aud, iat |-> payload.iat,
        exp |-> payload.exp, scope |-> payload.scope,
        assertion |-> signatureInput \o <<".", [rs256 |-> signatureInput]>>]

\* the assertion generateJWT builds: the fields of its header and payload,
\* and the text returned, headerBase64.payloadBase64.signature, where
\* [base64url |-> x] is Buffer.from(JSON.stringify(x)).toString('base64url')
\* and [rs256 |-> input] the RSA-SHA256 signature of input in base64url
generateJWT(ik, uid, host, t) ==
    LET header  == [typ |-> "JWT", alg |-> "RS256"]
        payload == [iss |-> ik, sub |-> uid, aud |-> host, iat |-> EpochSeconds(t),
                    exp |-> EpochSeconds(t) + JWT_LIFETIME_S,
                    scope |-> "signature impersonation"]
        signatureInput == <<[base64url |-> header], ".", [base64url |-> payload]>>
    IN [typ |-> header.typ, alg |-> header.alg, iss |-> payload.iss,
        sub |-> payload.sub, aud |-> payload.aud, iat |-> payload.iat,
        exp |-> payload.exp, scope |-> payload.scope,
        assertion |-> signatureInput \o <<".", [rs256 |-> signatureInput]>>]

ExpiresInAlwaysDefault(resp) == DEFAULT_EXPIRES_IN

\* expiresIn: data.expires_in || 3600
ExpiresInOf(resp) ==
    IF resp.hasExp /\ resp.expires_in # 0 THEN resp.expires_in ELSE DEFAULT_EXPIRES_IN

ExpiresAtInSeconds(t, expiresIn) == t + expiresIn

\* expiresAt: Date.now() + expiresIn * 1000
ExpiresAt(t, expiresIn) == t + expiresIn * 1000

\* getOrRefreshAccessToken up to its first await: cache lookup and check
CallStart(p, ik, uid, host) ==
    /\ calls[p].pc = "idle"
    /\ LET key == CacheKey(ik, uid, host)
           ok  == CacheValid(tokenCache, key, now)
       IN calls' = [calls EXCEPT ![p] =
             [IdleCall EXCEPT
                !.pc = IF ok THEN "done" ELSE "signing",
                !.ik = ik, !.uid = uid, !.host = host,
                !.result = IF ok THEN tokenCache[key].accessToken ELSE 0]]
    /\ UNCHANGED <<now, tokenCache, lastW, issued, req, hook, pag, fn>>

\* await generateJWT(...) completes; getAccessToken sends the POST
JwtSigned(p) ==
    /\ calls[p].pc = "signing"
    /\ calls' = [calls EXCEPT ![p].pc = "fetching",
                              ![p].jwt = generateJWT(calls[p].ik, calls[p].uid,
                                                     calls[p].host, now),
                              ![p].nreq = calls[p].nreq + 1]
    /\ UNCHANGED <<now, tokenCache, lastW, issued, req, hook, pag, fn>>

\* the token endpoint answers the JWT-bearer grant with a fresh access token
TokenIssued(p, hasExp, e) ==
    /\ calls[p].pc = "fetching"
    /\ Len(issued) < MaxTokens
    /\ issued' = Append(issued, [iss |-> calls[p].jwt.iss, sub |-> calls[p].jwt.sub,
                                 aud |-> calls[p].jwt.aud])
    /\ calls' = [calls EXCEPT ![p].pc = "responded",
                              ![p].resp = [NoResp EXCEPT
                                             !.kind = "ok", !.json = TRUE,
                                             !.access_token = Len(issued) + 1,
                                             !.hasExp = hasExp,
                                             !.expires_in = IF hasExp THEN e ELSE 0]]
    /\ UNCHANGED <<now, tokenCache, lastW, req, hook, pag, fn>>

\* the token endpoint answers without a usable token: a non-success status
\* (body not JSON, or JSON with or without an error_description), a success
\* status with a body that is not JSON, or a JSON body without access_token
TokenRefused(p, kind, json, desc) ==
    /\ calls[p].pc = "fetching"
    /\ kind = "badjson" => ~json
    /\ kind = "notoken" => json
    /\ (kind # "notok" \/ ~json) => desc = <<>>
    /\ calls' = [calls EXCEPT ![p].pc = "responded",
                              ![p].resp = [NoResp EXCEPT !.kind = kind, !.json = json,
                                                         !.error_description = desc]]
    /\ UNCHANGED <<now, tokenCache, lastW, issued, req, hook, pag, fn>>

\* the message of the error thrown for a non-success status: the description
\* is appended when it is non-empty and some safeErrors entry occurs in it
AuthErrorMessage(resp) ==
    IF /\ resp.json
       /\ resp.error_description # <<>>
       /\ \E e \in safeErrors : Includes(resp.error_description, e)
    THEN AUTH_FAILED \o <<":", " ">> \o resp.error_description
    ELSE AUTH_FAILED

getAccessTokenNoTokenCheck(resp) ==
    IF resp.kind = "notok"
    THEN [thrown |-> TRUE, accessToken |-> 0, expiresIn |-> 0,
          message |-> AuthErrorMessage(resp)]
    ELSE IF ~resp.json
    THEN [thrown |-> TRUE, accessToken |-> 0, expiresIn |-> 0,
          message |-> INVALID_FORMAT]
    ELSE [thrown |-> FALSE, accessToken |-> resp.access_token,
          expiresIn |-> ExpiresInOf(resp), message |-> <<>>]

\* getAccessToken after the fetch: what it returns, or "throw"
getAccessToken(resp) ==
    IF resp.kind = "notok"
    THEN [thrown |-> TRUE, accessToken |-> 0, expiresIn |-> 0,
          message |-> AuthErrorMessage(resp)]
    ELSE IF ~resp.json
    THEN [thrown |-> TRUE, accessToken |-> 0, expiresIn |-> 0,
          message |-> INVALID_FORMAT]
    ELSE IF resp.access_token = 0
    THEN [thrown |-> TRUE, accessToken |-> 0, expiresIn |-> 0,
          message |-> MISSING_TOKEN]
    ELSE [thrown |-> FALSE, accessToken |-> resp.access_token,
          expiresIn |-> ExpiresInOf(resp), message |-> <<>>]

\* the continuation of getOrRefreshAccessToken after await getAccessToken:
\* cache the token with its expiration time and return it, or propagate the throw
TokenResponse(p) ==
    /\ calls[p].pc = "responded"
    /\ LET r   == getAccessToken(calls[p].resp)
           key == CacheKey(calls[p].ik, calls[p].uid, calls[p].host)
       IN IF r.thrown
          THEN /\ calls' = [calls EXCEPT ![p].pc = "failed", ![p].error = r.message]
               /\ UNCHANGED <<tokenCache, lastW>>
          ELSE /\ tokenCache' = CacheSet(tokenCache, key,
                                   [accessToken |-> r.accessToken,
                                    expiresAt |-> ExpiresAt(now, r.expiresIn)])
               /\ lastW' = [k \in (DOMAIN lastW) \cup {key} |->
                              IF k = key
                              THEN [token |-> r.accessToken, at |-> now,
                                    hasExp |-> calls[p].resp.hasExp,
                                    expires_in |-> calls[p].resp.expires_in]
                              ELSE lastW[k]]
               /\ calls' = [calls EXCEPT ![p].pc = "done",
                                         ![p].result = r.accessToken]
    /\ UNCHANGED <<now, issued, req, hook, pag, fn>>

\* the caller has consumed the result (or the error); the slot is free again
CallFinish(p) ==
    /\ calls[p].pc \in {"done", "failed"}
    /\ calls' = [calls EXCEPT ![p] = IdleCall]
    /\ UNCHANGED <<now, tokenCache, lastW, issued, req, hook, pag, fn>>

\* Date.now() advances
Tick ==
    /\ now < MaxNow
    /\ \E d \in TickSteps : now' = now + d
    /\ UNCHANGED <<tokenCache, lastW, calls, issued, req, hook, pag, fn>>

----------------------------------------------------------------------------
(* Rate limiting helpers and docuSignApiRequest (helpers file) *)

MAX_RETRIES == 3

BASE_RETRY_DELAY_MS == 1000

DEFAULT_RETRY_AFTER_S == 60

DigitVal == [c \in {"0", "1", "2", "3", "4", "5", "6", "7", "8", "9"} |->
               CASE c = "0" -> 0 [] c = "1" -> 1 [] c = "2" -> 2 [] c = "3" -> 3
                 [] c = "4" -> 4 [] c = "5" -> 5 [] c = "6" -> 6 [] c = "7" -> 7
                 [] c = "8" -> 8 [] c = "9" -> 9]

IsDigit(c) == c \in DOMAIN DigitVal

RECURSIVE DigitsPrefix(_, _, _)
\* the value of the leading run of decimal digits of s, acc so far, n digits read
DigitsPrefix(s, acc, n) ==
    IF s # <<>> /\ IsDigit(Head(s))
    THEN DigitsPrefix(Tail(s), acc * 10 + DigitVal[Head(s)], n + 1)
    ELSE [nan |-> n = 0, val |-> acc]

RECURSIVE SkipSpaces(_)
SkipSpaces(s) == IF s # <<>> /\ Head(s) = " " THEN SkipSpaces(Tail(s)) ELSE s

\* parseInt(s, 10): leading blanks, an optional sign, then the leading digits;
\* NaN when no digit follows
parseInt(s) ==
    LET t    == SkipSpaces(s)
        neg  == t # <<>> /\ Head(t) = "-"
        sgn  == t # <<>> /\ Head(t) \in {"-", "+"}
        d    == DigitsPrefix(IF sgn THEN Tail(t) ELSE t, 0, 0)
    IN [nan |-> d.nan, val |-> IF neg THEN 0 - d.val ELSE d.val]

\* an error thrown by httpRequestWithAuthentication: statusCode and
\* response.statusCode (0: absent), code ("": absent), and the two response
\* headers getRetryAfterSeconds reads (<<>>: absent); response.body.errorCode,
\* response.body.message and message are absent or empty
Err(top, resp, code, ra, rs) ==
    [statusCode |-> top, respStatus |-> resp, code |-> code,
     retryAfter |-> ra, rateLimitReset |-> rs,
     bodyErrorCode |-> <<>>, bodyMessage |-> <<>>, message |-> <<>>]

\* the error e with response.body.errorCode, response.body.message and message
WithText(e, bodyErrorCode, bodyMessage, message) ==
    [e EXCEPT !.bodyErrorCode = bodyErrorCode, !.bodyMessage = bodyMessage,
              !.message = message]

NoErr == Err(0, 0, "", <<>>, <<>>)

RetryAfterVals == { <<>>, <<"2">>, <<"0">>, <<"x">> }

RateLimitResetVals == { <<>>, <<"9">>, <<"x">> }

\* s.substring(0, n)
Substring0(s, n) == SubSeq(s, 1, IF Len(s) < n THEN Len(s) ELSE n)

\* the text made of n copies of the character c
Repeat(c, n) == [i \in 1..n |-> c]

ToLower(c) ==
    CASE c = "A" -> "a"
      [] c = "B" -> "b"
      [] c = "C" -> "c"
      [] c = "D" -> "d"
      [] c = "E" -> "e"
      [] c = "F" -> "f"
      [] c = "G" -> "g"
      [] c = "H" -> "h"
      [] c = "I" -> "i"
      [] c = "J" -> "j"
      [] c = "K" -> "k"
      [] c = "L" -> "l"
      [] c = "M" -> "m"
      [] c = "N" -> "n"
      [] c = "O" -> "o"
      [] c = "P" -> "p"
      [] c = "Q" -> "q"
      [] c = "R" -> "r"
      [] c = "S" -> "s"
      [] c = "T" -> "t"
      [] c = "U" -> "u"
      [] c = "V" -> "v"
      [] c = "W" -> "w"
      [] c = "X" -> "x"
      [] c = "Y" -> "y"
      [] c = "Z" -> "z"
      [] OTHER -> c

\* s.toLowerCase()
LowerCase(s) == [i \in 1..Len(s) |-> ToLower(s[i])]

\* the length the texts taken from an error are cut to
MAX_MESSAGE_LEN == 200

ERROR_MESSAGES ==
    [ s \in {400, 401, 403, 404, 409, 422, 429, 500, 502, 503} |->
        CASE s = 400 ->
            << "B", "a", "d", " ", "R", "e", "q", "u", "e", "s", "t", ":",
               " ", "T", "h", "e", " ", "r", "e", "q", "u", "e", "s", "t",
               " ", "w", "a", "s", " ", "i", "n", "v", "a", "l", "i", "d",
               " ", "o", "r", " ", "m", "a", "l", "f", "o", "r", "m", "e",
               "d" >>
          [] s = 401 ->
            << "U", "n", "a", "u", "t", "h", "o", "r", "i", "z", "e", "d",
               ":", " ", "I", "n", "v", "a", "l", "i", "d", " ", "o", "r",
               " ", "m", "i", "s", "s", "i", "n", "g", " ", "c", "r", "e",
               "d", "e", "n", "t", "i", "a", "l", "s", ".", " ", "C", "h",
               "e", "c", "k", " ", "y", "o", "u", "r", " ", "A", "P", "I",
               " ", "k", "e", "y", "s", "." >>
          [] s = 403 ->
            << "F", "o", "r", "b", "i", "d", "d", "e", "n", ":", " ", "Y",
               "o", "u", " ", "d", "o", " ", "n", "o", "t", " ", "h", "a",
               "v", "e", " ", "p", "e", "r", "m", "i", "s", "s", "i", "o",
               "n", " ", "t", "o", " ", "a", "c", "c", "e", "s", "s", " ",
               "t", "h", "i", "s", " ", "r", "e", "s", "o", "u", "r", "c",
               "e" >>
          [] s = 404 ->
            << "N", "o", "t", " ", "F", "o", "u", "n", "d", ":", " ", "T",
               "h", "e", " ", "r", "e", "q", "u", "e", "s", "t", "e", "d",
               " ", "r", "e", "s", "o", "u", "r", "c", "e", " ", "d", "o",
               "e", "s", " ", "n", "o", "t", " ", "e", "x", "i", "s", "t" >>
          [] s = 409 ->
            << "C", "o", "n", "f", "l", "i", "c", "t", ":", " ", "T", "h",
               "e", " ", "r", "e", "s", "o", "u", "r", "c", "e", " ", "a",
               "l", "r", "e", "a", "d", "y", " ", "e", "x", "i", "s", "t",
               "s", " ", "o", "r", " ", "t", "h", "e", "r", "e", " ", "i",
               "s", " ", "a", " ", "c", "o", "n", "f", "l", "i", "c", "t" >>
          [] s = 422 ->
            << "U", "n", "p", "r", "o", "c", "e", "s", "s", "a", "b", "l",
               "e", " ", "E", "n", "t", "i", "t", "y", ":", " ", "T", "h",
               "e", " ", "r", "e", "q", "u", "e", "s", "t", " ", "d", "a",
               "t", "a", " ", "i", "s", " ", "i", "n", "v", "a", "l", "i",
               "d" >>
          [] s = 429 ->
            << "R", "a", "t", "e", " ", "L", "i", "m", "i", "t", "e", "d",
               ":", " ", "T", "o", "o", " ", "m", "a", "n", "y", " ", "r",
               "e", "q", "u", "e", "s", "t", "s", ".", " ", "P", "l", "e",
               "a", "s", "e", " ", "w", "a", "i", "t", " ", "b", "e", "f",
               "o", "r", "e", " ", "r", "e", "t", "r", "y", "i", "n", "g" >>
          [] s = 500 ->
            << "I", "n", "t", "e", "r", "n", "a", "l", " ", "S", "e", "r",
               "v", "e", "r", " ", "E", "r", "r", "o", "r", ":", " ", "S",
               "o", "m", "e", "t", "h", "i", "n", "g", " ", "w", "e", "n",
               "t", " ", "w", "r", "o", "n", "g", " ", "o", "n", " ", "D",
               "o", "c", "u", "S", "i", "g", "n", " ", "s", "e", "r", "v",
               "e", "r", "s" >>
          [] s = 502 ->
            << "B", "a", "d", " ", "G", "a", "t", "e", "w", "a", "y", ":",
               " ", "D", "o", "c", "u", "S", "i", "g", "n", " ", "i", "s",
               " ", "t", "e", "m", "p", "o", "r", "a", "r", "i", "l", "y",
               " ", "u", "n", "a", "v", "a", "i", "l", "a", "b", "l", "e" >>
          [] s = 503 ->
            << "S", "e", "r", "v", "i", "c", "e", " ", "U", "n", "a", "v",
               "a", "i", "l", "a", "b", "l", "e", ":", " ", "D", "o", "c",
               "u", "S", "i", "g", "n", " ", "i", "s", " ", "t", "e", "m",
               "p", "o", "r", "a", "r", "i", "l", "y", " ", "u", "n", "a",
               "v", "a", "i", "l", "a", "b", "l", "e" >>
    ]

\* 'Authentication failed. Please check your credentials.'
CHECK_CREDENTIALS ==
    << "A", "u", "t", "h", "e", "n", "t", "i", "c", "a", "t", "i", "o",
       "n", " ", "f", "a", "i", "l", "e", "d", ".", " ", "P", "l", "e",
       "a", "s", "e", " ", "c", "h", "e", "c", "k", " ", "y", "o", "u",
       "r", " ", "c", "r", "e", "d", "e", "n", "t", "i", "a", "l", "s", "." >>

\* 'An unknown error occurred'
UNKNOWN_ERROR ==
    << "A", "n", " ", "u", "n", "k", "n", "o", "w", "n", " ", "e", "r",
       "r", "o", "r", " ", "o", "c", "c", "u", "r", "r", "e", "d" >>

\* response.body.errorCode of a DocuSign error body (<<>>: absent)
BodyErrorCodes ==
    { <<>>,
      << "E", "N", "V", "E", "L", "O", "P", "E", "_", "D", "O", "E", "S",
         "_", "N", "O", "T", "_", "E", "X", "I", "S", "T" >> }

\* response.body.message of a DocuSign error body (<<>>: absent): a short
\* text, a text that names a token, a text one character longer than the
\* cut, and a text whose "key" starts right before the cut
BodyMessages ==
    { <<>>,
      << "B", "a", "d", " ", "e", "n", "v", "e", "l", "o", "p", "e", " ",
         "i", "d" >>,
      << "I", "n", "v", "a", "l", "i", "d", " ", "T", "o", "k", "e", "n",
         " ", "a", "b", "c" >>,
      Repeat("x", MAX_MESSAGE_LEN + 1),
      Repeat("x", MAX_MESSAGE_LEN - 1) \o
        << "k", "e", "y" >> }

\* message of the thrown error (<<>>: absent)
ErrorTexts ==
    { <<>>,
      << "s", "o", "c", "k", "e", "t", " ", "h", "a", "n", "g", " ", "u",
         "p" >>,
      << "B", "a", "d", " ", "A", "P", "I", " ", "K", "e", "y", " ", "k",
         "1" >>,
      Repeat("y", MAX_MESSAGE_LEN + 1) }

\* the failures of one HTTP attempt
Errors ==
    { Err(s, 0, "", <<>>, <<>>) : s \in {400, 404, 429, 500, 503} }
      \cup { Err(t, 429, "", ra, rs) :
               t \in {0, 429}, ra \in RetryAfterVals, rs \in RateLimitResetVals }
      \cup { Err(t, 404, "", ra, <<>>) : t \in {0, 404}, ra \in { <<>>, <<"2">> } }
      \cup { Err(t, 500, "", ra, <<>>) : t \in {0, 500}, ra \in { <<>>, <<"2">> } }
      \cup { Err(0, 0, c, <<>>, <<>>) :
               c \in {"ECONNRESET", "ETIMEDOUT", "ECONNREFUSED", "EPIPE", ""} }

\* failures that carry text: a DocuSign error body on a 404 or a 500, and an
\* error message with no status, with a status the table lacks, and with a 404
TextErrors ==
    { WithText(Err(0, s, "", <<>>, <<>>), c, m, <<>>) :
        s \in {404, 500}, c \in BodyErrorCodes, m \in BodyMessages \ { <<>> } }
      \cup { WithText(Err(s, 0, "", <<>>, <<>>), <<>>, <<>>, m) :
               s \in {0, 418, 404}, m \in ErrorTexts }

\* the HTTP status of the response behind the failure (0: there was none)
HttpStatus(e) == IF e.respStatus # 0 THEN e.respStatus ELSE e.statusCode

\* err.statusCode || err.response?.statusCode
StatusOf(e) == IF e.statusCode # 0 THEN e.statusCode ELSE e.respStatus

\* err.statusCode === 429 || err.response?.statusCode === 429
isRateLimitError(e) == e.statusCode = 429 \/ e.respStatus = 429

isRetryableError(e) ==
    \/ StatusOf(e) # 0 /\ StatusOf(e) >= 500 /\ StatusOf(e) < 600
    \/ e.code \in {"ECONNRESET", "ETIMEDOUT", "ECONNREFUSED"}

getRetryAfterSecondsResetFirst(e, t) ==
    LET ra == parseInt(e.retryAfter)
        rs == parseInt(e.rateLimitReset)
    IN IF e.rateLimitReset # <<>> /\ ~rs.nan /\ rs.val - EpochSeconds(t) > 0
       THEN rs.val - EpochSeconds(t)
       ELSE IF e.retryAfter # <<>> /\ ~ra.nan /\ ra.val > 0 THEN ra.val
       ELSE 0

\* getRetryAfterSeconds at time t; 0 stands for undefined (the function
\* returns only positive numbers, and its caller reads it through `|| 60`)
getRetryAfterSeconds(e, t) ==
    LET ra == parseInt(e.retryAfter)
        rs == parseInt(e.rateLimitReset)
    IN IF e.retryAfter # <<>> /\ ~ra.nan /\ ra.val > 0 THEN ra.val
       ELSE IF e.rateLimitReset # <<>> /\ ~rs.nan /\ rs.val - EpochSeconds(t) > 0
            THEN rs.val - EpochSeconds(t)
       ELSE 0

\* the text contains 'token', 'key' or 'secret', whatever the case
MentionsSecret(s) ==
    \E w \in { <<"t", "o", "k", "e", "n">>, <<"k", "e", "y">>,
                <<"s", "e", "c", "r", "e", "t">> } : Includes(LowerCase(s), w)

\* getErrorMessage(error)
getErrorMessage(e) ==
    LET statusCode  == StatusOf(e)
        safeMessage == Substring0(e.bodyMessage, MAX_MESSAGE_LEN)
    IN IF e.bodyMessage # <<>>
       THEN IF e.bodyErrorCode # <<>>
            THEN e.bodyErrorCode \o <<":", " ">> \o safeMessage
            ELSE safeMessage
       ELSE IF statusCode # 0 /\ statusCode \in DOMAIN ERROR_MESSAGES
       THEN ERROR_MESSAGES[statusCode]
       ELSE IF e.message # <<>>
       THEN IF MentionsSecret(e.message)
            THEN CHECK_CREDENTIALS
            ELSE Substring0(e.message, MAX_MESSAGE_LEN)
       ELSE UNKNOWN_ERROR

LinearFactor(n) == n + 1

\* Math.pow(2, attempt)
RECURSIVE Pow2(_)
Pow2(n) == IF n = 0 THEN 1 ELSE 2 * Pow2(n - 1)

RetryLeftOneMore(attempt) == attempt <= MAX_RETRIES

RetryLeftOneFewer(attempt) == attempt < MAX_RETRIES - 1

\* attempt < MAX_RETRIES: the loop (attempt <= MAX_RETRIES) runs once more
RetryLeft(attempt) == attempt < MAX_RETRIES

OnErrorRetryAnyStatus(e, attempt, t) ==
    LET after == getRetryAfterSeconds(e, t)
        wait  == IF after # 0 THEN after ELSE DEFAULT_RETRY_AFTER_S
    IN IF isRateLimitError(e) /\ RetryLeft(attempt)
       THEN [do |-> "sleep", ms |-> wait * 1000]
       ELSE IF (isRetryableError(e) \/ StatusOf(e) >= 400) /\ RetryLeft(attempt)
       THEN [do |-> "sleep", ms |-> BASE_RETRY_DELAY_MS * Pow2(attempt)]
       ELSE [do |-> "raise", ms |-> 0]

OnErrorRateLimitAlwaysWaits(e, attempt, t) ==
    LET sc    == StatusOf(e)
        after == getRetryAfterSeconds(e, t)
        wait  == IF after # 0 THEN after ELSE DEFAULT_RETRY_AFTER_S
    IN IF sc # 0 /\ sc >= 400 /\ sc < 500 /\ sc # 429
       THEN [do |-> "raise", ms |-> 0]
       ELSE IF isRateLimitError(e)
       THEN [do |-> "sleep", ms |-> wait * 1000]
       ELSE IF isRetryableError(e) /\ RetryLeft(attempt)
       THEN [do |-> "sleep", ms |-> BASE_RETRY_DELAY_MS * Pow2(attempt)]
       ELSE [do |-> "raise", ms |-> 0]

\* the catch block of one attempt: "raise" (break out of the loop and throw)
\* or "sleep" for ms milliseconds and continue with the next attempt
OnError(e, attempt, t) ==
    LET sc    == StatusOf(e)
        after == getRetryAfterSeconds(e, t)
        wait  == IF after # 0 THEN after ELSE DEFAULT_RETRY_AFTER_S
    IN IF sc # 0 /\ sc >= 400 /\ sc < 500 /\ sc # 429
       THEN [do |-> "raise", ms |-> 0]
       ELSE IF isRateLimitError(e) /\ RetryLeft(attempt)
       THEN [do |-> "sleep", ms |-> wait * 1000]
       ELSE IF isRetryableError(e) /\ RetryLeft(attempt)
       THEN [do |-> "sleep", ms |-> BASE_RETRY_DELAY_MS * Pow2(attempt)]
       ELSE [do |-> "raise", ms |-> 0]

\* the options of httpRequestWithAuthentication as far as the caller's
\* arguments decide them: the method, and the body when the call has one
\* that is not empty (body: "undefined", "empty" for {}, or "data")
Options(method, body) == [method |-> method, body |-> IF body = "data" THEN body ELSE "unset"]

\* the calls made: a read, and writes with and without a body
RequestArgs ==
    { <<"GET", "undefined">>, <<"POST", "data">>, <<"PUT", "data">>, <<"DELETE", "empty">> }

IdleReq == [pc |-> "idle", attempt |-> 0, httpCalls |-> 0, fails |-> <<>>,
            sleeps |-> <<>>, pending |-> 0, lastError |-> NoErr,
            thrown |-> "", message |-> <<>>, result |-> "",
            options |-> Options("", "undefined"), sent |-> <<>>]

\* docuSignApiRequest is called: credentials read, options built, loop entered
ReqStart(method, body) ==
    /\ req.pc = "idle"
    /\ req' = [req EXCEPT !.pc = "attempt", !.options = Options(method, body)]
    /\ UNCHANGED <<now, tokenCache, lastW, calls, issued, hook, pag, fn>>

\* the HTTP attempt succeeds: its response is returned
HttpOk ==
    /\ req.pc = "attempt"
    /\ req' = [req EXCEPT !.pc = "returned", !.httpCalls = @ + 1,
                          !.sent = Append(@, req.options),
                          !.result = "response"]
    /\ UNCHANGED <<now, tokenCache, lastW, calls, issued, hook, pag, fn>>

HttpFailRetryReadsOnly(e) ==
    /\ req.pc = "attempt"
    /\ LET d == IF req.options.method = "GET"
                THEN OnError(e, req.attempt, now)
                ELSE [do |-> "raise", ms |-> 0]
       IN req' = [req EXCEPT
                    !.httpCalls = @ + 1,
                    !.sent = Append(@, req.options),
                    !.fails = Append(@, [status |-> HttpStatus(e), code |-> e.code]),
                    !.lastError = e,
                    !.pc = IF d.do = "sleep" THEN "sleeping" ELSE "raised",
                    !.pending = d.ms,
                    !.thrown = IF d.do = "sleep" THEN "" ELSE "NodeApiError",
                    !.message = IF d.do = "sleep" THEN <<>> ELSE getErrorMessage(e)]
    /\ UNCHANGED <<now, tokenCache, lastW, calls, issued, hook, pag, fn>>

\* the HTTP attempt throws e; the catch block decides
HttpFail(e) ==
    /\ req.pc = "attempt"
    /\ LET d == OnError(e, req.attempt, now)
       IN req' = [req EXCEPT
                    !.httpCalls = @ + 1,
                    !.sent = Append(@, req.options),
                    !.fails = Append(@, [status |-> HttpStatus(e), code |-> e.code]),
                    !.lastError = e,
                    !.pc = IF d.do = "sleep" THEN "sleeping" ELSE "raised",
                    !.pending = d.ms,
                    !.thrown = IF d.do = "sleep" THEN "" ELSE "NodeApiError",
                    !.message = IF d.do = "sleep" THEN <<>> ELSE getErrorMessage(e)]
    /\ UNCHANGED <<now, tokenCache, lastW, calls, issued, hook, pag, fn>>

SleepDoneRateLimitFree ==
    /\ req.pc = "sleeping"
    /\ now' = now + req.pending
    /\ req' = [req EXCEPT !.pc = "attempt",
                          !.attempt = IF req.fails[Len(req.fails)].status = 429
                                      THEN @ ELSE @ + 1,
                          !.sleeps = Append(@, req.pending), !.pending = 0]
    /\ UNCHANGED <<tokenCache, lastW, calls, issued, hook, pag, fn>>

\* await sleep(ms) ends; `continue` runs attempt++ and the next attempt
SleepDone ==
    /\ req.pc = "sleeping"
    /\ now' = now + req.pending
    /\ req' = [req EXCEPT !.pc = "attempt", !.attempt = @ + 1,
                          !.sleeps = Append(@, req.pending), !.pending = 0]
    /\ UNCHANGED <<tokenCache, lastW, calls, issued, hook, pag, fn>>

NextRequestOf(E, A) ==
    \/ \E a \in A : ReqStart(a[1], a[2])
    \/ HttpOk
    \/ \E e \in E : HttpFail(e)
    \/ SleepDone
    \/ Tick

NextRequest == NextRequestOf(Errors, RequestArgs)

\* one read and one write, for the runs that follow a call to its end
RequestArgsFair == { <<"GET", "undefined">>, <<"POST", "data">> }

NextRequestFair == NextRequestOf(Errors, RequestArgsFair)

\* the same call when the failures carry text
NextRequestText == NextRequestOf(TextErrors, RequestArgs)

----------------------------------------------------------------------------
(* docuSignApiRequestAllItems (helpers file) *)

\* number of items the server holds, at most
MaxServerItems == 5

\* page requests one call may issue before the model stops following it
MaxRequests == MaxServerItems + 2

DEFAULT_PAGE_SIZE == 100

DEFAULT_TIMEOUT_MS == 300000

\* paginationOptions.pageSize: small pages, and the default
PageSizes == {1, 2, DEFAULT_PAGE_SIZE}

\* paginationOptions.timeout: off, one second, and the default
Timeouts == {0, 1000, DEFAULT_TIMEOUT_MS}

\* paginationOptions.maxItems when it is supplied (the limit field of the
\* node has minValue 1)
MaxItemsVals == {1, 3}

\* milliseconds one page request takes
PageDurations == {0, 600}

\* how the server fills totalSetSize and endPosition of one list response
PageModes == {"ok", "nototal", "noend", "garbage", "suffix", "stuck"}

\* the errors docuSignApiRequest raises for a page request
PageErrors == {"Not Found: The requested resource does not exist",
               "Internal Server Error: Something went wrong on DocuSign servers"}

DigitChar == [d \in 0..9 |->
                CASE d = 0 -> "0" [] d = 1 -> "1" [] d = 2 -> "2" [] d = 3 -> "3"
                  [] d = 4 -> "4" [] d = 5 -> "5" [] d = 6 -> "6" [] d = 7 -> "7"
                  [] d = 8 -> "8" [] d = 9 -> "9"]

RECURSIVE Digits(_)
\* the decimal digits of the natural number n
Digits(n) == IF n < 10 THEN <<DigitChar[n]>> ELSE Digits(n \div 10) \o <<DigitChar[n % 10]>>

\* the decimal text of the integer n, as JSON and template literals print it
Decimal(n) == IF n < 0 THEN <<"-">> \o Digits(0 - n) ELSE Digits(n)

Min(a, b) == IF a < b THEN a ELSE b

\* the items of the list at positions first..last (positions count from 0);
\* an item is named by its position plus one
ItemsAt(first, last) == [i \in 1..(last - first + 1) |-> first + i]

\* the list response to (start_position, count) of a server holding n items:
\* the resource array, totalSetSize and endPosition (<<>>: field absent)
ServerPage(n, start, count, mode) ==
    LET len == IF start < n THEN Min(count, n - start) ELSE 0
        end == IF len = 0 THEN start ELSE start + len - 1
    IN [items        |-> ItemsAt(start, start + len - 1),
        totalSetSize |-> CASE mode = "nototal" -> <<>>
                           [] mode = "garbage" -> <<"x">>
                           [] mode = "suffix" -> Decimal(n) \o <<"x">>
                           [] OTHER -> Decimal(n),
        endPosition  |-> CASE mode = "noend" -> <<>>
                           [] mode = "stuck" -> Decimal(start - 1)
                           [] OTHER -> Decimal(end)]

\* `Pagination timeout exceeded (${timeout}ms). Retrieved ${n} items before timeout.`
TimeoutMessage(timeout, n) ==
    << "P", "a", "g", "i", "n", "a", "t", "i", "o", "n", " ", "t", "i",
       "m", "e", "o", "u", "t", " ", "e", "x", "c", "e", "e", "d", "e",
       "d", " ", "(" >>
      \o Decimal(timeout) \o
    << "m", "s", ")", ".", " ", "R", "e", "t", "r", "i", "e", "v", "e",
       "d", " " >>
      \o Decimal(n) \o
    << " ", "i", "t", "e", "m", "s", " ", "b", "e", "f", "o", "r", "e",
       " ", "t", "i", "m", "e", "o", "u", "t", "." >>

\* the text is a decimal integer: an optional '-' and digits, nothing else
IsNumeric(s) ==
    LET t == IF s # <<>> /\ Head(s) = "-" THEN Tail(s) ELSE s
    IN t # <<>> /\ \A i \in 1..Len(t) : IsDigit(t[i])

\* returnData.slice(0, k)
Slice0(s, k) == SubSeq(s, 1, Min(k, Len(s)))

IdlePag == [pc |-> "idle", n |-> 0, hasMaxItems |-> FALSE, maxItems |-> 0,
            timeout |-> 0, pageSize |-> 0, startTime |-> 0, startPosition |-> 0,
            returnData |-> <<>>, requests |-> <<>>,
            last |-> [seen |-> FALSE, nan |-> FALSE, totalSetSize |-> 0, endPosition |-> 0,
                      items |-> 0, numeric |-> FALSE],
            modes |-> {},
            elapsed |-> 0, thrown |-> "", message |-> <<>>, result |-> <<>>]

TimeoutAlwaysOff(p, t) == FALSE

\* timeout > 0 && Date.now() - startTime > timeout
TimedOut(p, t) == p.timeout > 0 /\ t - p.startTime > p.timeout

\* the top of the loop at time t: the timeout error, or the next page request
LoopTop(p, t) ==
    IF TimedOut(p, t)
    THEN [p EXCEPT !.pc = "raised", !.thrown = "timeout", !.elapsed = t - p.startTime,
                   !.message = TimeoutMessage(p.timeout, Len(p.returnData))]
    ELSE [p EXCEPT !.pc = "waiting", !.elapsed = t - p.startTime,
                   !.requests = Append(@, [start_position |-> p.startPosition,
                                           count |-> p.pageSize])]

\* docuSignApiRequestAllItems is called for a server that holds n items:
\* options destructured, startTime read, first iteration up to its request
PagStart(n, hasMaxItems, maxItems, timeout, pageSize) ==
    /\ pag.pc = "idle"
    /\ pag' = LoopTop([IdlePag EXCEPT !.n = n, !.hasMaxItems = hasMaxItems,
                                      !.maxItems = IF hasMaxItems THEN maxItems ELSE 0,
                                      !.timeout = timeout, !.pageSize = pageSize,
                                      !.startTime = now, !.startPosition = 0], now)
    /\ UNCHANGED <<now, tokenCache, lastW, calls, issued, req, hook, fn>>

MaxItemsNeverReached(p, len) == FALSE

\* maxItems && returnData.length >= maxItems
MaxItemsReached(p, len) == p.hasMaxItems /\ p.maxItems # 0 /\ len >= p.maxItems

NoMorePagesOneLate(total, end) == total.nan \/ end.nan \/ end.val >= total.val

NoMorePagesOnlyAtEnd(total, end) == ~total.nan /\ ~end.nan /\ end.val >= total.val - 1

\* isNaN(totalSetSize) || isNaN(endPosition) || endPosition >= totalSetSize - 1
NoMorePages(total, end) == total.nan \/ end.nan \/ end.val >= total.val - 1

AfterResponseSamePosition(p, r, t) ==
    LET data  == p.returnData \o r.items
        total == parseInt(r.totalSetSize)
        end   == parseInt(r.endPosition)
        q     == [p EXCEPT !.returnData = data,
                           !.last = [seen |-> TRUE, nan |-> total.nan \/ end.nan,
                                     totalSetSize |-> total.val, endPosition |-> end.val,
                                     items |-> Len(r.items),
                                     numeric |-> /\ IsNumeric(r.totalSetSize)
                                                 /\ IsNumeric(r.endPosition)],
                           !.elapsed = t - p.startTime]
    IN IF MaxItemsReached(p, Len(data))
       THEN [q EXCEPT !.pc = "returned", !.result = Slice0(data, p.maxItems)]
       ELSE IF NoMorePages(total, end)
       THEN [q EXCEPT !.pc = "returned", !.result = data]
       ELSE LoopTop([q EXCEPT !.startPosition = end.val], t)

\* the rest of one iteration after `await docuSignApiRequest` gave the
\* response r at time t, and the top of the next iteration
AfterResponse(p, r, t) ==
    LET data  == p.returnData \o r.items
        total == parseInt(r.totalSetSize)
        end   == parseInt(r.endPosition)
        q     == [p EXCEPT !.returnData = data,
                           !.last = [seen |-> TRUE, nan |-> total.nan \/ end.nan,
                                     totalSetSize |-> total.val, endPosition |-> end.val,
                                     items |-> Len(r.items),
                                     numeric |-> /\ IsNumeric(r.totalSetSize)
                                                 /\ IsNumeric(r.endPosition)],
                           !.elapsed = t - p.startTime]
    IN IF MaxItemsReached(p, Len(data))
       THEN [q EXCEPT !.pc = "returned", !.result = Slice0(data, p.maxItems)]
       ELSE IF NoMorePages(total, end)
       THEN [q EXCEPT !.pc = "returned", !.result = data]
       ELSE LoopTop([q EXCEPT !.startPosition = end.val + 1], t)

\* the page request returns after d milliseconds with a list response
PageResponse(mode, d) ==
    /\ pag.pc = "waiting"
    /\ Len(pag.requests) < MaxRequests \/ mode # "stuck"
    /\ now' = now + d
    /\ pag' = AfterResponse([pag EXCEPT !.modes = @ \cup {mode}],
                            ServerPage(pag.n, pag.startPosition, pag.pageSize, mode),
                            now + d)
    /\ UNCHANGED <<tokenCache, lastW, calls, issued, req, hook, fn>>

\* the page request fails after d milliseconds: docuSignApiRequest raises,
\* and the error leaves docuSignApiRequestAllItems
PageFail(e, d) ==
    /\ pag.pc = "waiting"
    /\ now' = now + d
    /\ pag' = [pag EXCEPT !.pc = "raised", !.thrown = "request", !.message = e,
                          !.elapsed = now + d - pag.startTime]
    /\ UNCHANGED <<tokenCache, lastW, calls, issued, req, hook, fn>>

NextPaginate ==
    \/ \E n \in 0..MaxServerItems, hasMaxItems \in BOOLEAN, maxItems \in MaxItemsVals,
          timeout \in Timeouts, pageSize \in PageSizes :
          PagStart(n, hasMaxItems, maxItems, timeout, pageSize)
    \/ \E mode \in PageModes, d \in PageDurations : PageResponse(mode, d)
    \/ \E e \in PageErrors, d \in PageDurations : PageFail(e, d)

----------------------------------------------------------------------------
(* Webhook signature verification and the DocuSignTrigger webhook handler *)

\* length of the base64 text of a SHA-256 digest
DIGEST_B64_LEN == 44

Secrets == {"", "s1", "s2"}

EventTypes == {"", "envelope-completed", "envelope-sent"}

\* the values of the node parameter `events`
SelectedSets == SUBSET {"envelope-completed", "envelope-sent"}

\* the age beyond which the specification's checkReplay calls an event expired
maxAgeMs == 5 * 60 * 1000

\* the body carries no generation timestamp
NoTimestamp == [has |-> FALSE, at |-> 0]

\* the generation timestamp of a body received at time t: none, the current
\* time, and one millisecond more than maxAgeMs before it
GeneratedTimes(t) ==
    { NoTimestamp, [has |-> TRUE, at |-> t], [has |-> TRUE, at |-> t - maxAgeMs - 1] }

\* the request body as text: the JSON value it denotes and how it is laid
\* out ("compact": exactly what JSON.stringify prints for that value)
Payload(ev, gen, fmt) == [event |-> ev, generated |-> gen, fmt |-> fmt]

\* the empty text
EmptyPayload == [event |-> "", generated |-> NoTimestamp, fmt |-> "empty"]

\* this.getBodyData(): the parsed body keeps the value, not the layout
ParseBody(raw) == [event |-> raw.event, generated |-> raw.generated]

\* JSON.stringify(body)
Stringify(body) == Payload(body.event, body.generated, "compact")

\* crypto.createHmac('sha256', secret).update(payload).digest('base64')
HmacBase64(secret, payload) ==
    [len |-> DIGEST_B64_LEN,
     of |-> <<secret, payload.event, payload.generated, payload.fmt>>]

NoSignature == [len |-> 0, of |-> <<>>]

\* crypto.timingSafeEqual(Buffer.from(a), Buffer.from(b)): throws on a
\* length mismatch
timingSafeEqual(a, b) ==
    IF a.len # b.len THEN [thrown |-> TRUE, eq |-> FALSE]
    ELSE [thrown |-> FALSE, eq |-> a = b]

\* what a helper call does: it returns value, or it throws
Returned(v) == [thrown |-> FALSE, value |-> v]

verifyWebhookSignatureNoCatch(payload, signature, secret) ==
    IF payload = EmptyPayload \/ signature.len = 0 \/ secret = "" THEN Returned(FALSE)
    ELSE LET r == timingSafeEqual(signature, HmacBase64(secret, payload))
         IN IF r.thrown THEN [thrown |-> TRUE, value |-> FALSE] ELSE Returned(r.eq)

verifyWebhookSignatureNoSecretGuard(payload, signature, secret) ==
    IF payload = EmptyPayload \/ signature.len = 0 THEN Returned(FALSE)
    ELSE LET r == timingSafeEqual(signature, HmacBase64(secret, payload))
         IN IF r.thrown THEN Returned(FALSE) ELSE Returned(r.eq)

\* verifyWebhookSignature: the guard on empty arguments, then the comparison
\* inside try/catch
verifyWebhookSignature(payload, signature, secret) ==
    IF payload = EmptyPayload \/ signature.len = 0 \/ secret = "" THEN Returned(FALSE)
    ELSE LET r == timingSafeEqual(signature, HmacBase64(secret, payload))
         IN IF r.thrown THEN Returned(FALSE) ELSE Returned(r.eq)

\* the requests that can arrive at time t, with the node parameters and the
\* credential they meet
HookRequests(t) ==
    [verifySignature : BOOLEAN, credsOk : BOOLEAN, webhookSecret : Secrets,
     event : EventTypes, generated : GeneratedTimes(t),
     fmt : {"compact", "spaced"}, sender : Secrets \ {""},
     sigKind : {"none", "junk", "short", "hmac"}, selectedEvents : SelectedSets]

\* the signature header of request r: none, one of the digest's length that
\* is the digest of nothing, one shorter than a digest, or a digest
SigOf(r) ==
    CASE r.sigKind = "none"  -> NoSignature
      [] r.sigKind = "junk"  -> [len |-> DIGEST_B64_LEN, of |-> <<"junk">>]
      [] r.sigKind = "short" -> [len |-> 7, of |-> <<"junk">>]
      [] r.sigKind = "hmac"  -> HmacBase64(r.sender, Payload(r.event, r.generated, r.fmt))

ErrorResponse(status, msg) ==
    [status |-> status, error |-> msg, filtered |-> FALSE, workflow |-> FALSE,
     event |-> ""]

NoResponse == ErrorResponse(0, "")

CheckSignatureSkipNoSecret(r) ==
    LET signature == SigOf(r)
        body      == ParseBody(Payload(r.event, r.generated, r.fmt))
    IN IF signature.len = 0 THEN ErrorResponse(401, "Missing signature header")
       ELSE IF ~r.credsOk THEN ErrorResponse(500, "Signature verification failed")
       ELSE IF r.webhookSecret = "" THEN NoResponse
       ELSE IF verifyWebhookSignature(Stringify(body), signature, r.webhookSecret).thrown
            THEN ErrorResponse(500, "Signature verification failed")
       ELSE IF ~verifyWebhookSignature(Stringify(body), signature, r.webhookSecret).value
            THEN ErrorResponse(401, "Invalid signature")
       ELSE NoResponse

CheckSignatureSecretFirst(r) ==
    LET signature == SigOf(r)
        body      == ParseBody(Payload(r.event, r.generated, r.fmt))
    IN IF ~r.credsOk THEN ErrorResponse(500, "Signature verification failed")
       ELSE IF r.webhookSecret = ""
            THEN ErrorResponse(500, "Webhook secret not configured in credentials")
       ELSE IF signature.len = 0 THEN ErrorResponse(401, "Missing signature header")
       ELSE IF verifyWebhookSignature(Stringify(body), signature, r.webhookSecret).thrown
            THEN ErrorResponse(500, "Signature verification failed")
       ELSE IF ~verifyWebhookSignature(Stringify(body), signature, r.webhookSecret).value
            THEN ErrorResponse(401, "Invalid signature")
       ELSE NoResponse

\* the signature block of webhook(): an error response, or NoResponse when
\* the request passes
CheckSignature(r) ==
    LET signature == SigOf(r)
        body      == ParseBody(Payload(r.event, r.generated, r.fmt))
    IN IF signature.len = 0 THEN ErrorResponse(401, "Missing signature header")
       ELSE IF ~r.credsOk THEN ErrorResponse(500, "Signature verification failed")
       ELSE IF r.webhookSecret = ""
            THEN ErrorResponse(500, "Webhook secret not configured in credentials")
       ELSE IF verifyWebhookSignature(Stringify(body), signature, r.webhookSecret).thrown
            THEN ErrorResponse(500, "Signature verification failed")
       ELSE IF ~verifyWebhookSignature(Stringify(body), signature, r.webhookSecret).value
            THEN ErrorResponse(401, "Invalid signature")
       ELSE NoResponse

webhookFilterWhenEmpty(r) ==
    LET body      == ParseBody(Payload(r.event, r.generated, r.fmt))
        rejected  == IF r.verifySignature THEN CheckSignature(r) ELSE NoResponse
        eventType == body.event
    IN IF rejected # NoResponse THEN rejected
       ELSE IF eventType \notin r.selectedEvents
            THEN [status |-> 200, error |-> "", filtered |-> TRUE,
                  workflow |-> FALSE, event |-> ""]
       ELSE [status |-> 200, error |-> "", filtered |-> FALSE,
             workflow |-> TRUE, event |-> eventType]

\* DocuSignTrigger.webhook
webhook(r) ==
    LET body      == ParseBody(Payload(r.event, r.generated, r.fmt))
        rejected  == IF r.verifySignature THEN CheckSignature(r) ELSE NoResponse
        eventType == body.event
    IN IF rejected # NoResponse THEN rejected
       ELSE IF r.selectedEvents # {} /\ eventType \notin r.selectedEvents
            THEN [status |-> 200, error |-> "", filtered |-> TRUE,
                  workflow |-> FALSE, event |-> ""]
       ELSE [status |-> 200, error |-> "", filtered |-> FALSE,
             workflow |-> TRUE, event |-> eventType]

IdleHook == [pc |-> "idle",
             request |-> [verifySignature |-> FALSE, credsOk |-> FALSE,
                          webhookSecret |-> "", event |-> "",
                          generated |-> NoTimestamp, fmt |-> "compact",
                          sender |-> "s1", sigKind |-> "none", selectedEvents |-> {}],
             response |-> NoResponse]

\* DocuSign Connect (or anyone else) posts a request to the webhook URL
HookReceive(r) ==
    /\ hook.pc = "idle"
    /\ hook' = [pc |-> "received", request |-> r, response |-> NoResponse]
    /\ UNCHANGED <<now, tokenCache, lastW, calls, issued, req, pag, fn>>

\* webhook() runs to its return
HookHandle ==
    /\ hook.pc = "received"
    /\ hook' = [hook EXCEPT !.pc = "answered", !.response = webhook(hook.request)]
    /\ UNCHANGED <<now, tokenCache, lastW, calls, issued, req, pag, fn>>

\* the response has been sent
HookDone ==
    /\ hook.pc = "answered"
    /\ hook' = IdleHook
    /\ UNCHANGED <<now, tokenCache, lastW, calls, issued, req, pag, fn>>

NextWebhook ==
    \/ \E r \in HookRequests(now) : HookReceive(r)
    \/ HookHandle
    \/ HookDone

----------------------------------------------------------------------------
(* Input validation: new URL(url) and isValidUrl *)

IsAlnum(c) ==
    \/ IsDigit(c)
    \/ ToLower(c) \in {"a", "b", "c", "d", "e", "f", "g", "h", "i", "j", "k", "l", "m",
                       "n", "o", "p", "q", "r", "s", "t", "u", "v", "w", "x", "y", "z"}

HexVal == [c \in DOMAIN DigitVal \cup {"a", "b", "c", "d", "e", "f"} |->
             CASE c = "a" -> 10 [] c = "b" -> 11 [] c = "c" -> 12
               [] c = "d" -> 13 [] c = "e" -> 14 [] c = "f" -> 15
               [] OTHER -> DigitVal[c]]

\* s.startsWith(p)
StartsWith(s, p) == Len(p) <= Len(s) /\ SubSeq(s, 1, Len(p)) = p

\* s.indexOf(c) + 1
IndexOf(s, c) ==
    IF \E i \in 1..Len(s) : s[i] = c
    THEN CHOOSE i \in 1..Len(s) : s[i] = c /\ \A j \in 1..(i - 1) : s[j] # c
    ELSE 0

\* the first position of s whose character is in C (member) or is not in C
\* (~member), Len(s) + 1 if there is none
FirstWhere(s, C, member) ==
    IF \E i \in 1..Len(s) : (s[i] \in C) = member
    THEN CHOOSE i \in 1..Len(s) :
           /\ (s[i] \in C) = member
           /\ \A j \in 1..(i - 1) : (s[j] \in C) # member
    ELSE Len(s) + 1

RECURSIVE Split(_, _)
\* s.split(c)
Split(s, c) ==
    LET i == IndexOf(s, c)
    IN IF i = 0 THEN <<s>>
       ELSE <<SubSeq(s, 1, i - 1)>> \o Split(SubSeq(s, i + 1, Len(s)), c)

RECURSIVE Join(_, _)
\* parts.join(c)
Join(parts, c) ==
    IF parts = <<>> THEN <<>>
    ELSE IF Len(parts) = 1 THEN parts[1]
    ELSE parts[1] \o <<c>> \o Join(Tail(parts), c)

RECURSIVE RadixNumber(_, _, _)
\* the number that the digits s spell in radix r, after the digits read into
\* acc. A number is kept as hi * 65536 + lo so that a 32-bit address fits; hi
\* stops growing at 65536 (the number is then 2^32 or more); ok is FALSE when
\* a character is no digit of the radix
RadixNumber(s, r, acc) ==
    IF s = <<>> THEN acc
    ELSE IF Head(s) \notin DOMAIN HexVal \/ HexVal[Head(s)] >= r
    THEN [ok |-> FALSE, hi |-> 0, lo |-> 0]
    ELSE LET lo == acc.lo * r + HexVal[Head(s)]
             hi == acc.hi * r + (lo \div 65536)
         IN RadixNumber(Tail(s), r, [ok |-> TRUE, hi |-> Min(hi, 65536), lo |-> lo % 65536])

RECURSIVE RadixDigits(_, _)
\* n.toString(r) for r <= 16
RadixDigits(n, r) ==
    LET c == CHOOSE x \in DOMAIN HexVal : HexVal[x] = n % r
    IN IF n < r THEN <<c>> ELSE RadixDigits(n \div r, r) \o <<c>>

\* the URL standard's IPv4 parser and serializer: at most four numbers (0x
\* starts a hexadecimal number, a leading 0 an octal one), the last one
\* filling the remaining bytes; the result is a.b.c.d in decimal
ParseIPv4(d) ==
    LET zero      == [ok |-> TRUE, hi |-> 0, lo |-> 0]
        number(s) == IF s = <<>> THEN [ok |-> FALSE, hi |-> 0, lo |-> 0]
                     ELSE IF StartsWith(s, <<"0", "x">>)
                     THEN RadixNumber(SubSeq(s, 3, Len(s)), 16, zero)
                     ELSE IF Len(s) >= 2 /\ s[1] = "0" THEN RadixNumber(Tail(s), 8, zero)
                     ELSE RadixNumber(s, 10, zero)
        all   == Split(d, ".")
        parts == IF Len(all) > 1 /\ all[Len(all)] = <<>> THEN SubSeq(all, 1, Len(all) - 1)
                 ELSE all
        n     == Len(parts)
        nums  == [i \in 1..n |-> number(parts[i])]
        last  == nums[n]
        fill  == <<last.hi \div 256, last.hi % 256, last.lo \div 256, last.lo % 256>>
        bytes == [i \in 1..4 |-> IF i < n THEN nums[i].lo ELSE fill[i]]
    IN IF n > 4 \/ \E i \in 1..n : ~nums[i].ok THEN [ok |-> FALSE, hostname |-> <<>>]
       ELSE IF \E i \in 1..(n - 1) : nums[i].hi # 0 \/ nums[i].lo > 255
       THEN [ok |-> FALSE, hostname |-> <<>>]
       ELSE IF last.hi > 65535 \/ \E i \in 1..(n - 1) : fill[i] # 0
       THEN [ok |-> FALSE, hostname |-> <<>>]
       ELSE [ok |-> TRUE, hostname |-> Join([i \in 1..4 |-> Decimal(bytes[i])], ".")]

\* the URL standard's IPv6 parser and serializer for the notations made of
\* hexadecimal pieces and at most one "::" (an embedded dotted IPv4 tail is
\* not read); in the result the first longest run of two or more zero
\* pieces is written "::"
ParseIPv6(s) ==
    LET failure == [ok |-> FALSE, hostname |-> <<>>]
        serialize(pieces) ==
            LET run(i) == IF pieces[i] # 0 THEN 0
                          ELSE (CHOOSE j \in i..8 :
                                  /\ \A m \in i..j : pieces[m] = 0
                                  /\ (j = 8 \/ pieces[j + 1] # 0)) - i + 1
                best   == CHOOSE i \in 1..8 :
                             /\ \A j \in 1..8 : run(j) <= run(i)
                             /\ \A j \in 1..(i - 1) : run(j) < run(i)
                hex(a, b) ==
                    Join([i \in 1..(b - a + 1) |-> RadixDigits(pieces[a + i - 1], 16)], ":")
            IN [ok |-> TRUE,
                hostname |-> IF run(best) < 2 THEN hex(1, 8)
                             ELSE hex(1, best - 1) \o <<":", ":">> \o hex(best + run(best), 8)]
        \* mid: the k texts between the colons, "" where the "::" is
        fromMid(mid, k) ==
            LET gaps     == {i \in 1..k : mid[i] = <<>>}
                zeros    == 8 - (k - 1)
                piece(i) == RadixNumber(mid[i], 16, [ok |-> TRUE, hi |-> 0, lo |-> 0])
                expand(gap) == [i \in 1..8 |-> IF i < gap THEN piece(i).lo
                                               ELSE IF i < gap + zeros THEN 0
                                               ELSE piece(i - zeros + 1).lo]
            IN IF Cardinality(gaps) > 1 THEN failure
               ELSE IF \E i \in 1..k : i \notin gaps /\ (Len(mid[i]) > 4 \/ ~piece(i).ok)
               THEN failure
               ELSE IF (gaps = {} /\ k # 8) \/ (gaps # {} /\ zeros < 1) THEN failure
               ELSE serialize(IF gaps = {} THEN [i \in 1..k |-> piece(i).lo]
                              ELSE expand(CHOOSE i \in gaps : TRUE))
        fromParts(parts, n) ==
            LET lead  == n >= 2 /\ parts[1] = <<>> /\ parts[2] = <<>>
                trail == n >= 2 /\ parts[n] = <<>> /\ parts[n - 1] = <<>>
            IN IF (parts[1] = <<>> /\ ~lead) \/ (parts[n] = <<>> /\ ~trail) THEN failure
               ELSE fromMid(SubSeq(parts, IF lead THEN 2 ELSE 1, IF trail THEN n - 1 ELSE n),
                            n - (IF lead THEN 1 ELSE 0) - (IF trail THEN 1 ELSE 0))
    IN fromParts(Split(s, ":"), Len(Split(s, ":")))

\* the URL standard's host parser for a special scheme: a bracketed IPv6
\* address, an IPv4 address when the last label is a number, else a domain
\* in lower case without forbidden characters (percent escapes and
\* non-ASCII names are not read)
ParseHost(h) ==
    LET failure == [ok |-> FALSE, hostname |-> <<>>]
        d       == LowerCase(h)
        all     == Split(d, ".")
        last    == IF Len(all) > 1 /\ all[Len(all)] = <<>> THEN all[Len(all) - 1]
                   ELSE all[Len(all)]
        number  == \/ last # <<>> /\ \A i \in 1..Len(last) : IsDigit(last[i])
                   \/ /\ StartsWith(last, <<"0", "x">>)
                      /\ \A i \in 3..Len(last) : last[i] \in DOMAIN HexVal
        bracketed(v6) == IF ~v6.ok THEN failure
                         ELSE [ok |-> TRUE, hostname |-> <<"[">> \o v6.hostname \o <<"]">>]
    IN IF h = <<>> THEN failure
       ELSE IF Head(h) = "["
       THEN IF h[Len(h)] # "]" THEN failure
            ELSE bracketed(ParseIPv6(SubSeq(d, 2, Len(d) - 1)))
       ELSE IF \E i \in 1..Len(d) :
                 d[i] \in {" ", "<", ">", "[", "]", "^", "|", "%", "@", ":", "/", "\\", "?", "#"}
       THEN failure
       ELSE IF number THEN ParseIPv4(d)
       ELSE [ok |-> TRUE, hostname |-> d]

\* new URL(url) without a base: the protocol and the hostname of the parsed
\* URL, or a TypeError (ok = FALSE)
ParseUrl(url) ==
    LET colon      == IndexOf(url, ":")
        scheme     == LowerCase(SubSeq(url, 1, colon - 1))
        rest       == SubSeq(url, colon + 1, Len(url))
        wellFormed == /\ colon > 1
                      /\ IsAlnum(url[1]) /\ ~IsDigit(url[1])
                      /\ \A j \in 2..(colon - 1) : IsAlnum(url[j]) \/ url[j] \in {"+", "-", "."}
        slashes    == FirstWhere(rest, {"/", "\\"}, FALSE) - 1
        parsed(hostname) == [ok |-> TRUE, protocol |-> scheme \o <<":">>, hostname |-> hostname]
        failure    == [ok |-> FALSE, protocol |-> <<>>, hostname |-> <<>>]
        \* the authority that starts t: up to the first character of ends
        authority(t, ends) == SubSeq(t, 1, FirstWhere(t, ends, TRUE) - 1)
        \* the host of an authority: what follows the last "@", up to the port
        hostOf(a)  ==
            LET at == IF IndexOf(a, "@") = 0 THEN 0
                      ELSE CHOOSE i \in 1..Len(a) :
                             a[i] = "@" /\ \A j \in (i + 1)..Len(a) : a[j] # "@"
                \* the host is the first n characters of hostport
                cutAt(hostport, n) ==
                    LET port == RadixNumber(SubSeq(hostport, n + 2, Len(hostport)), 10,
                                            [ok |-> TRUE, hi |-> 0, lo |-> 0])
                    IN IF n = Len(hostport) THEN [ok |-> TRUE, host |-> hostport]
                       ELSE IF hostport[n + 1] # ":" THEN [ok |-> FALSE, host |-> <<>>]
                       ELSE [ok |-> port.ok /\ port.hi = 0, host |-> SubSeq(hostport, 1, n)]
                split(hostport) ==
                    IF hostport # <<>> /\ Head(hostport) = "["
                    THEN IF IndexOf(hostport, "]") = 0 THEN [ok |-> FALSE, host |-> <<>>]
                         ELSE cutAt(hostport, IndexOf(hostport, "]"))
                    ELSE cutAt(hostport, FirstWhere(hostport, {":"}, TRUE) - 1)
            IN split(SubSeq(a, at + 1, Len(a)))
        withHost(host) == IF ~host.ok THEN failure ELSE parsed(host.hostname)
        \* http, https, ftp, ws, wss: any run of slashes, then the authority
        special(hp)    == IF ~hp.ok THEN failure ELSE withHost(ParseHost(hp.host))
        \* file: a host only after two slashes, and localhost is dropped
        fileHost(host) ==
            IF ~host.ok THEN failure
            ELSE IF host.hostname = <<"l", "o", "c", "a", "l", "h", "o", "s", "t">>
            THEN parsed(<<>>)
            ELSE parsed(host.hostname)
        file(fhost)    == IF fhost = <<>> THEN parsed(<<>>) ELSE fileHost(ParseHost(fhost))
        \* any other scheme: an opaque host after "//", else no host
        opaque(ohp)    == IF ~ohp.ok THEN failure ELSE parsed(ohp.host)
    IN IF ~wellFormed THEN failure
       ELSE IF scheme = <<"f", "i", "l", "e">>
       THEN file(IF slashes >= 2
                 THEN authority(SubSeq(rest, 3, Len(rest)), {"/", "\\", "?", "#"})
                 ELSE <<>>)
       ELSE IF scheme \in {<<"h", "t", "t", "p">>, <<"h", "t", "t", "p", "s">>,
                           <<"f", "t", "p">>, <<"w", "s">>, <<"w", "s", "s">>}
       THEN special(hostOf(authority(SubSeq(rest, slashes + 1, Len(rest)),
                                     {"/", "\\", "?", "#"})))
       ELSE IF StartsWith(rest, <<"/", "/">>)
       THEN opaque(hostOf(authority(SubSeq(rest, 3, Len(rest)), {"/", "?", "#"})))
       ELSE parsed(<<>>)

\* const blockedPatterns = [...]
blockedPatterns ==
    << << "l", "o", "c", "a", "l", "h", "o", "s", "t" >>,
       << "1", "2", "7", ".", "0", ".", "0", ".", "1" >>,
       << "0", ".", "0", ".", "0", ".", "0" >>,
       << ":", ":", "1" >>,
       << "[", ":", ":", "1", "]" >>,
       << "1", "0", "." >>,
       << "1", "7", "2", ".", "1", "6", "." >>,
       << "1", "7", "2", ".", "1", "7", "." >>,
       << "1", "7", "2", ".", "1", "8", "." >>,
       << "1", "7", "2", ".", "1", "9", "." >>,
       << "1", "7", "2", ".", "2", "0", "." >>,
       << "1", "7", "2", ".", "2", "1", "." >>,
       << "1", "7", "2", ".", "2", "2", "." >>,
       << "1", "7", "2", ".", "2", "3", "." >>,
       << "1", "7", "2", ".", "2", "4", "." >>,
       << "1", "7", "2", ".", "2", "5", "." >>,
       << "1", "7", "2", ".", "2", "6", "." >>,
       << "1", "7", "2", ".", "2", "7", "." >>,
       << "1", "7", "2", ".", "2", "8", "." >>,
       << "1", "7", "2", ".", "2", "9", "." >>,
       << "1", "7", "2", ".", "3", "0", "." >>,
       << "1", "7", "2", ".", "3", "1", "." >>,
       << "1", "9", "2", ".", "1", "6", "8", "." >>,
       << "1", "6", "9", ".", "2", "5", "4", "." >> >>

isValidUrlNoLinkLocal(url, requireHttps) ==
    LET allowed(parsedUrl) ==
            LET hostname == LowerCase(parsedUrl.hostname)
            IN IF ~parsedUrl.ok THEN FALSE
               ELSE IF requireHttps /\ parsedUrl.protocol # <<"h", "t", "t", "p", "s", ":">>
               THEN FALSE
               ELSE IF parsedUrl.protocol \notin {<<"h", "t", "t", "p", ":">>,
                                                  <<"h", "t", "t", "p", "s", ":">>}
               THEN FALSE
               ELSE ~\E i \in 1..(Len(blockedPatterns) - 1) :
                        \/ hostname = blockedPatterns[i]
                        \/ StartsWith(hostname, blockedPatterns[i])
    IN allowed(ParseUrl(url))

isValidUrlAnyScheme(url, requireHttps) ==
    LET allowed(parsedUrl) ==
            LET hostname == LowerCase(parsedUrl.hostname)
            IN IF ~parsedUrl.ok THEN FALSE
               ELSE IF requireHttps /\ parsedUrl.protocol # <<"h", "t", "t", "p", "s", ":">>
               THEN FALSE
               ELSE ~\E i \in 1..Len(blockedPatterns) :
                        \/ hostname = blockedPatterns[i]
                        \/ StartsWith(hostname, blockedPatterns[i])
    IN allowed(ParseUrl(url))

\* isValidUrl: a TypeError of new URL is caught and gives false
isValidUrl(url, requireHttps) ==
    LET allowed(parsedUrl) ==
            LET hostname == LowerCase(parsedUrl.hostname)
            IN IF ~parsedUrl.ok THEN FALSE
               ELSE IF requireHttps /\ parsedUrl.protocol # <<"h", "t", "t", "p", "s", ":">>
               THEN FALSE
               ELSE IF parsedUrl.protocol \notin {<<"h", "t", "t", "p", ":">>,
                                                  <<"h", "t", "t", "p", "s", ":">>}
               THEN FALSE
               ELSE ~\E i \in 1..Len(blockedPatterns) :
                        \/ hostname = blockedPatterns[i]
                        \/ StartsWith(hostname, blockedPatterns[i])
    IN allowed(ParseUrl(url))

----------------------------------------------------------------------------
(* Input validation: the format checks and validateField *)

\* isValidEmail: local part, "@", then two or more dot-separated labels,
\* each [a-zA-Z0-9](?:[a-zA-Z0-9-]{0,61}[a-zA-Z0-9])? (the grave accent,
\* which the pattern admits in the local part, has no string in TLA+ and is
\* in none of the texts tried)
isValidEmail(email) ==
    LET at       == IndexOf(email, "@")
        labels   == Split(SubSeq(email, at + 1, Len(email)), ".")
        local(c) == \/ IsAlnum(c)
                    \/ c \in {".", "!", "#", "$", "%", "&", "'", "*", "+", "/", "=", "?",
                              "^", "_", "{", "|", "}", "~", "-"}
        label(l) == /\ Len(l) >= 1 /\ Len(l) <= 63
                    /\ IsAlnum(l[1]) /\ IsAlnum(l[Len(l)])
                    /\ \A i \in 1..Len(l) : IsAlnum(l[i]) \/ l[i] = "-"
    IN /\ at > 1
       /\ \A i \in 1..(at - 1) : local(email[i])
       /\ Len(labels) >= 2
       /\ \A i \in 1..Len(labels) : label(labels[i])

\* isValidUUID: 8-4-4-4-12 hexadecimal digits, in either case
isValidUUID(uuid) ==
    /\ Len(uuid) = 36
    /\ \A i \in 1..36 : IF i \in {9, 14, 19, 24} THEN uuid[i] = "-"
                        ELSE ToLower(uuid[i]) \in DOMAIN HexVal

\* isValidBase64: not empty, base64 characters then at most two "=", and
\* Buffer.from(str, 'base64') has at least one byte (six bits a character)
isValidBase64(str) ==
    LET data == {str[i] : i \in {j \in 1..Len(str) : IsAlnum(str[j]) \/ str[j] \in {"+", "/"}}}
        n    == FirstWhere(str, data, FALSE) - 1
    IN /\ str # <<>>
       /\ Len(str) - n <= 2
       /\ \A i \in (n + 1)..Len(str) : str[i] = "="
       /\ (n * 6) \div 8 > 0

\* isValidIsoDate: !isNaN(new Date(dateString).getTime()) and a "-" in the
\* text. Date.parse reads the ISO format (YYYY, YYYY-MM or YYYY-MM-DD, then
\* nothing or T with HH:mm or HH:mm:ss, then Z or nothing); of the texts that
\* are not in the ISO format MM/DD/YYYY is a date and every other text here
\* is not
isValidIsoDate(dateString) ==
    LET digits(s, n) == Len(s) = n /\ \A i \in 1..n : IsDigit(s[i])
        num(s)       == DigitsPrefix(s, 0, 0).val
        isoDate(d)   ==
            LET p == Split(d, "-")
            IN /\ Len(p) >= 1 /\ Len(p) <= 3
               /\ digits(p[1], 4)
               /\ Len(p) >= 2 => digits(p[2], 2) /\ num(p[2]) \in 1..12
               /\ Len(p) = 3 => digits(p[3], 2) /\ num(p[3]) \in 1..31
        isoTime(t)   ==
            LET u == IF t # <<>> /\ t[Len(t)] = "Z" THEN SubSeq(t, 1, Len(t) - 1) ELSE t
                p == Split(u, ":")
            IN /\ Len(p) >= 2 /\ Len(p) <= 3
               /\ \A i \in 1..Len(p) : digits(p[i], 2)
               /\ num(p[1]) <= 23 /\ num(p[2]) <= 59
               /\ Len(p) = 3 => num(p[3]) <= 59
        slashDate(s) ==
            LET p == Split(s, "/")
            IN /\ Len(p) = 3
               /\ digits(p[1], 2) /\ num(p[1]) \in 1..12
               /\ digits(p[2], 2) /\ num(p[2]) \in 1..31
               /\ digits(p[3], 4)
        t == IndexOf(dateString, "T")
    IN /\ \/ t = 0 /\ isoDate(dateString)
          \/ /\ t > 0
             /\ isoDate(SubSeq(dateString, 1, t - 1))
             /\ isoTime(SubSeq(dateString, t + 1, Len(dateString)))
          \/ slashDate(dateString)
       /\ IndexOf(dateString, "-") # 0

\* a thrown Error with its message
Thrown(msg) == [thrown |-> TRUE, value |-> msg]

validateFieldNoSkip(fieldName, value, validationType) ==
    LET isEmpty  == \/ value.type \in {"undefined", "null"}
                    \/ value.type = "string" /\ value.text = <<>>
        isString == value.type = "string"
        check(ok, msg) == IF ~isString \/ ~ok THEN Thrown(fieldName \o msg)
                          ELSE Returned("undefined")
    IN IF validationType = "required"
       THEN IF isEmpty
            THEN Thrown(fieldName \o << " ", "i", "s", " ", "r", "e", "q", "u", "i", "r",
                                    "e", "d" >>)
            ELSE Returned("undefined")
       ELSE CASE validationType = "email" ->
                    check(isValidEmail(value.text),
                          << " ", "m", "u", "s", "t", " ", "b", "e", " ", "a", " ",
                             "v", "a", "l", "i", "d", " ", "e", "m", "a", "i", "l",
                             " ", "a", "d", "d", "r", "e", "s", "s" >>)
         [] validationType = "uuid" ->
                    check(isValidUUID(value.text),
                          << " ", "m", "u", "s", "t", " ", "b", "e", " ", "a", " ",
                             "v", "a", "l", "i", "d", " ", "U", "U", "I", "D", " ",
                             "(", "e", ".", "g", ".", ",", " ", "1", "2", "3", "4",
                             "5", "6", "7", "8", "-", "1", "2", "3", "4", "-", "1",
                             "2", "3", "4", "-", "1", "2", "3", "4", "-", "1", "2",
                             "3", "4", "5", "6", "7", "8", "9", "a", "b", "c", ")" >>)
         [] validationType = "base64" ->
                    check(isValidBase64(value.text),
                          << " ", "m", "u", "s", "t", " ", "b", "e", " ", "v", "a",
                             "l", "i", "d", " ", "b", "a", "s", "e", "6", "4", "-",
                             "e", "n", "c", "o", "d", "e", "d", " ", "c", "o", "n",
                             "t", "e", "n", "t" >>)
         [] validationType = "url" ->
                    check(isValidUrl(value.text, FALSE),
                          << " ", "m", "u", "s", "t", " ", "b", "e", " ", "a", " ",
                             "v", "a", "l", "i", "d", " ", "U", "R", "L" >>)
         [] validationType = "httpsUrl" ->
                    check(isValidUrl(value.text, TRUE),
                          << " ", "m", "u", "s", "t", " ", "b", "e", " ", "a", " ",
                             "v", "a", "l", "i", "d", " ", "H", "T", "T", "P", "S",
                             " ", "U", "R", "L" >>)
         [] validationType = "date" ->
                    check(isValidIsoDate(value.text),
                          << " ", "m", "u", "s", "t", " ", "b", "e", " ", "a", " ",
                             "v", "a", "l", "i", "d", " ", "I", "S", "O", " ", "8",
                             "6", "0", "1", " ", "d", "a", "t", "e" >>)

\* validateField: returns undefined, or throws an Error; value is empty when
\* value === undefined || value === null || value === ''
validateField(fieldName, value, validationType) ==
    LET isEmpty  == \/ value.type \in {"undefined", "null"}
                    \/ value.type = "string" /\ value.text = <<>>
        isString == value.type = "string"
        check(ok, msg) == IF ~isString \/ ~ok THEN Thrown(fieldName \o msg)
                          ELSE Returned("undefined")
    IN IF validationType = "required"
       THEN IF isEmpty
            THEN Thrown(fieldName \o << " ", "i", "s", " ", "r", "e", "q", "u", "i", "r",
                                    "e", "d" >>)
            ELSE Returned("undefined")
       ELSE IF isEmpty THEN Returned("undefined")
       ELSE CASE validationType = "email" ->
                    check(isValidEmail(value.text),
                          << " ", "m", "u", "s", "t", " ", "b", "e", " ", "a", " ",
                             "v", "a", "l", "i", "d", " ", "e", "m", "a", "i", "l",
                             " ", "a", "d", "d", "r", "e", "s", "s" >>)
         [] validationType = "uuid" ->
                    check(isValidUUID(value.text),
                          << " ", "m", "u", "s", "t", " ", "b", "e", " ", "a", " ",
                             "v", "a", "l", "i", "d", " ", "U", "U", "I", "D", " ",
                             "(", "e", ".", "g", ".", ",", " ", "1", "2", "3", "4",
                             "5", "6", "7", "8", "-", "1", "2", "3", "4", "-", "1",
                             "2", "3", "4", "-", "1", "2", "3", "4", "-", "1", "2",
                             "3", "4", "5", "6", "7", "8", "9", "a", "b", "c", ")" >>)
         [] validationType = "base64" ->
                    check(isValidBase64(value.text),
                          << " ", "m", "u", "s", "t", " ", "b", "e", " ", "v", "a",
                             "l", "i", "d", " ", "b", "a", "s", "e", "6", "4", "-",
                             "e", "n", "c", "o", "d", "e", "d", " ", "c", "o", "n",
                             "t", "e", "n", "t" >>)
         [] validationType \in {"url", "httpsUrl"} ->
                    check(isValidUrl(value.text, validationType = "httpsUrl"),
                          << " ", "m", "u", "s", "t", " ", "b", "e", " ", "a", " ",
                             "v", "a", "l", "i", "d", " " >>
                           \o (IF validationType = "httpsUrl"
                               THEN << "H", "T", "T", "P", "S", " " >> ELSE <<>>)
                           \o << "U", "R", "L" >>)
         [] validationType = "date" ->
                    check(isValidIsoDate(value.text),
                          << " ", "m", "u", "s", "t", " ", "b", "e", " ", "a", " ",
                             "v", "a", "l", "i", "d", " ", "I", "S", "O", " ", "8",
                             "6", "0", "1", " ", "d", "a", "t", "e" >>)

----------------------------------------------------------------------------
(* The pure helpers, one call at a time *)

IdleFn == [name |-> "none", args |-> <<>>, out |-> Returned(FALSE)]

\* a caller applies verifyWebhookSignature
VerifyCall(payload, signature, secret) ==
    /\ fn.name = "none"
    /\ fn' = [name |-> "verifyWebhookSignature",
              args |-> [payload |-> payload, signature |-> signature, secret |-> secret],
              out  |-> verifyWebhookSignature(payload, signature, secret)]
    /\ UNCHANGED <<now, tokenCache, lastW, calls, issued, req, pag, hook>>

\* the URL texts handed to isValidUrl, each with the scheme and the host it
\* was written from. The hosts: IPv4 addresses around every boundary of the
\* blocked ranges, in the notations a URL can spell an address in; names;
\* IPv6 addresses. Around the host the text has nothing, userinfo, a port, a
\* path, or a single slash before it. Every IPv4 host is tried in a plain
\* https URL; the names, the IPv6 hosts and four of the IPv4 addresses are
\* tried under every scheme and in every shape
UrlInputs ==
    LET dec(ip) == [i \in 1..4 |-> Decimal(ip[i])]
        ip4Text(ip, notation) ==
            CASE notation = "dotted" -> Join(dec(ip), ".")
              [] notation = "rooted" -> Join(dec(ip), ".") \o <<".">>
              [] notation = "three"  ->
                   Join(<<Decimal(ip[1]), Decimal(ip[2]), Decimal(ip[3] * 256 + ip[4])>>, ".")
              [] notation = "two"    ->
                   Join(<<Decimal(ip[1]), Decimal(ip[2] * 65536 + ip[3] * 256 + ip[4])>>, ".")
              [] notation = "hex"    ->
                   Join([i \in 1..4 |-> <<"0", "X">> \o RadixDigits(ip[i], 16)], ".")
              [] notation = "octal"  ->
                   Join([i \in 1..4 |-> <<"0">> \o RadixDigits(ip[i], 8)], ".")
        ip4Hosts ==
            { [kind |-> "ip4", ip |-> <<a, b, 0, d>>, pieces |-> <<>>,
               text |-> ip4Text(<<a, b, 0, d>>, notation)] :
                a \in {0, 10, 11, 127, 169, 172, 192}, b \in {0, 15, 16, 31, 32, 168, 254},
                d \in {0, 1},
                notation \in {"dotted", "rooted", "three", "two", "hex", "octal"} }
        nameHosts ==
            { [kind |-> "name", ip |-> <<>>, pieces |-> <<>>, text |-> t] :
                t \in { << "l", "o", "c", "a", "l", "h", "o", "s", "t" >>,
                        << "L", "O", "C", "A", "L", "H", "O", "S", "T" >>,
                        << "l", "o", "c", "a", "l", "h", "o", "s", "t", "." >>,
                        << "e", "x", "a", "m", "p", "l", "e", ".", "c", "o", "m" >>,
                        << "a", "p", "i", ".", "d", "o", "c", "u", "s", "i", "g", "n",
                           ".", "c", "o", "m" >>,
                        << "1", "0", ".", "e", "x", "a", "m", "p", "l", "e", ".", "c",
                           "o", "m" >>,
                        << "l", "o", "c", "a", "l", "h", "o", "s", "t", ".", "e", "x",
                           "a", "m", "p", "l", "e", ".", "c", "o", "m" >>,
                        << "e", "x", "a", " ", "m", "p", "l", "e", ".", "c", "o", "m" >>,
                        <<>> } }
        ip6Hosts ==
            { [kind |-> "ip6", ip |-> <<>>, pieces |-> <<0, 0, 0, 0, 0, 0, 0, 1>>,
               text |-> << "[", ":", ":", "1", "]" >>],
              [kind |-> "ip6", ip |-> <<>>, pieces |-> <<0, 0, 0, 0, 0, 0, 0, 1>>,
               text |-> << "[", "0", ":", "0", ":", "0", ":", "0", ":", "0", ":", "0",
                           ":", "0", ":", "1", "]" >>],
              [kind |-> "ip6", ip |-> <<>>, pieces |-> <<0, 0, 0, 0, 0, 0, 0, 1>>,
               text |-> << "[", "0", "0", "0", "0", ":", "0", "0", "0", "0", ":", "0",
                           "0", "0", "0", ":", "0", "0", "0", "0", ":", "0", "0", "0",
                           "0", ":", "0", "0", "0", "0", ":", "0", "0", "0", "0", ":",
                           "0", "0", "0", "1", "]" >>],
              [kind |-> "ip6", ip |-> <<>>, pieces |-> <<0, 0, 0, 0, 0, 0, 0, 2>>,
               text |-> << "[", ":", ":", "2", "]" >>],
              [kind |-> "ip6", ip |-> <<>>, pieces |-> <<8193, 3512, 0, 0, 0, 0, 0, 1>>,
               text |-> << "[", "2", "0", "0", "1", ":", "D", "B", "8", ":", ":", "1",
                           "]" >>],
              [kind |-> "ip6", ip |-> <<>>, pieces |-> <<0, 0, 0, 0, 0, 0, 0, 0>>,
               text |-> << "[", ":", ":", "]" >>] }
        urlText(scheme, host, shape) ==
            CASE shape = "plain"    -> scheme \o <<":", "/", "/">> \o host.text
              [] shape = "userinfo" -> scheme \o <<":", "/", "/", "u", ":", "p", "@">> \o host.text
              [] shape = "port"     -> scheme \o <<":", "/", "/">> \o host.text \o <<":", "3", "0", "0", "0">>
              [] shape = "path"     -> scheme \o <<":", "/", "/">> \o host.text \o <<"/", "v", "1", "?", "a", "=", "1">>
              [] shape = "oneslash" -> scheme \o <<":", "/">> \o host.text \o <<"/">>
        fewIp4 == {<<127, 0, 0, 1>>, <<10, 0, 0, 1>>, <<11, 0, 0, 1>>, <<169, 254, 0, 1>>}
        https  == << "h", "t", "t", "p", "s" >>
    IN { [url |-> urlText(https, host, "plain"), scheme |-> https, host |-> host] :
           host \in ip4Hosts }
       \cup
       { [url |-> urlText(scheme, host, shape), scheme |-> LowerCase(scheme), host |-> host] :
           scheme \in { << "h", "t", "t", "p" >>, << "h", "t", "t", "p", "s" >>,
                       << "H", "t", "t", "P" >>, << "f", "t", "p" >>, << "f", "i", "l", "e" >>,
                       << "g", "o", "p", "h", "e", "r" >> },
           host \in {h \in ip4Hosts : h.ip \in fewIp4} \cup nameHosts \cup ip6Hosts,
           shape \in {"plain", "userinfo", "port", "path", "oneslash"} }
       \cup
       { [url |-> t, scheme |-> <<>>,
          host |-> [kind |-> "none", ip |-> <<>>, pieces |-> <<>>, text |-> <<>>]] :
           t \in { << "n", "o", "t", " ", "a", " ", "u", "r", "l" >>,
                   << "/", "/", "e", "x", "a", "m", "p", "l", "e", ".", "c", "o", "m", "/", "x" >>,
                   <<>> } }

\* a caller applies isValidUrl
UrlCall(u, requireHttps) ==
    /\ fn.name = "none"
    /\ fn' = [name |-> "isValidUrl",
              args |-> [url |-> u.url, requireHttps |-> requireHttps,
                        scheme |-> u.scheme, host |-> u.host],
              out  |-> Returned(isValidUrl(u.url, requireHttps))]
    /\ UNCHANGED <<now, tokenCache, lastW, calls, issued, req, pag, hook>>

\* a caller applies validateField
ValidateCall(fieldName, value, validationType) ==
    /\ fn.name = "none"
    /\ fn' = [name |-> "validateField",
              args |-> [fieldName |-> fieldName, value |-> value,
                        validationType |-> validationType],
              out  |-> validateField(fieldName, value, validationType)]
    /\ UNCHANGED <<now, tokenCache, lastW, calls, issued, req, pag, hook>>

\* API_BASE_URL_PRODUCTION and API_BASE_URL_DEMO of ./constants, with the
\* values the tests pin down
API_BASE_URL_PRODUCTION == "https://na1.docusign.net/restapi/v2.1"

API_BASE_URL_DEMO == "https://demo.docusign.net/restapi/v2.1"

\* REGION_URLS of ./constants: the entries the tests pin down (an entry for
\* na, if the table has one, is API_BASE_URL_PRODUCTION, which is also what
\* getBaseUrl gives a region without an entry)
REGION_URLS ==
    [r \in {"eu", "au", "ca"} |->
       CASE r = "eu" -> "https://eu.docusign.net/restapi/v2.1"
         [] r = "au" -> "https://au.docusign.net/restapi/v2.1"
         [] r = "ca" -> "https://ca.docusign.net/restapi/v2.1"]

getBaseUrlRegionFirst(environment, region) ==
    IF region # "undefined" /\ region # "" /\ region \in DOMAIN REGION_URLS
    THEN REGION_URLS[region]
    ELSE IF environment = "demo" THEN API_BASE_URL_DEMO
    ELSE API_BASE_URL_PRODUCTION

\* getBaseUrl: region is "undefined" when the argument is left out;
\* `region && REGION_URLS[region]` is falsy for a missing or empty region and
\* for a region without an entry
getBaseUrl(environment, region) ==
    IF environment = "demo" THEN API_BASE_URL_DEMO
    ELSE IF region # "undefined" /\ region # "" /\ region \in DOMAIN REGION_URLS
    THEN REGION_URLS[region]
    ELSE API_BASE_URL_PRODUCTION

\* a caller applies getBaseUrl
BaseUrlCall(environment, region) ==
    /\ fn.name = "none"
    /\ fn' = [name |-> "getBaseUrl",
              args |-> [environment |-> environment, region |-> region],
              out  |-> Returned(getBaseUrl(environment, region))]
    /\ UNCHANGED <<now, tokenCache, lastW, calls, issued, req, pag, hook>>

\* REGION_URLS of the credentials file: the API base URL and the auth hosts
\* of each region tag
AUTH_REGION_URLS ==
    [r \in {"na", "eu", "au", "ca", "demo"} |->
       [api      |-> CASE r = "na" -> "https://na1.docusign.net/restapi/v2.1"
                       [] r = "eu" -> "https://eu.docusign.net/restapi/v2.1"
                       [] r = "au" -> "https://au.docusign.net/restapi/v2.1"
                       [] r = "ca" -> "https://ca.docusign.net/restapi/v2.1"
                       [] r = "demo" -> "https://demo.docusign.net/restapi/v2.1",
        auth     |-> IF r = "demo" THEN "account-d.docusign.com"
                     ELSE "account.docusign.com",
        authDemo |-> "account-d.docusign.com"]]

\* (credentials.region as string) || 'na'
RegionOrNa(region) == IF region \in {"undefined", ""} THEN "na" ELSE region

\* authenticate up to the token call: the auth server it resolves, or the
\* TypeError of reading .auth of REGION_URLS[region] when the table has no
\* such region
authenticate(environment, region) ==
    LET r == RegionOrNa(region)
    IN IF environment = "production"
       THEN IF r \in DOMAIN AUTH_REGION_URLS
            THEN Returned(AUTH_REGION_URLS[r].auth)
            ELSE [thrown |-> TRUE, value |-> "TypeError"]
       ELSE Returned(AUTH_REGION_URLS["demo"].authDemo)

\* one request with the stored credentials: docuSignApiRequest resolves its
\* base URL, and authenticate, run by httpRequestWithAuthentication for the
\* same credentials, its auth server
CredentialsCall(environment, region) ==
    /\ fn.name = "none"
    /\ fn' = [name |-> "credentials",
              args |-> [environment |-> environment, region |-> region],
              out  |-> [baseUrl    |-> getBaseUrl(environment, RegionOrNa(region)),
                        authServer |-> authenticate(environment, region)]]
    /\ UNCHANGED <<now, tokenCache, lastW, calls, issued, req, pag, hook>>

\* the validateField statements a builder starts with, in order: the first
\* that throws ends the builder with its error
RECURSIVE validateFields(_)
validateFields(checks) ==
    IF checks = <<>> THEN Returned("undefined")
    ELSE LET then(r) == IF r.thrown THEN r ELSE validateFields(Tail(checks))
         IN then(validateField(checks[1].fieldName, checks[1].value,
                               checks[1].validationType))

\* buildSigner: both validations, then the signer object (routingOrder is
\* "undefined" when the argument is left out and then defaults to '1')
buildSigner(email, name, recipientId, routingOrder) ==
    LET give(v) ==
          IF v.thrown THEN v
          ELSE Returned([email |-> email, name |-> name, recipientId |-> recipientId,
                         routingOrder |-> IF routingOrder = "undefined" THEN "1"
                                          ELSE routingOrder])
    IN give(validateFields(
         << [fieldName |-> << "S", "i", "g", "n", "e", "r", " ", "e", "m", "a", "i", "l" >>,
              value |-> email, validationType |-> "email"],
            [fieldName |-> << "S", "i", "g", "n", "e", "r", " ", "n", "a", "m", "e" >>,
              value |-> name, validationType |-> "required"] >>))

\* buildCarbonCopy: as buildSigner, with its own field names
buildCarbonCopy(email, name, recipientId, routingOrder) ==
    LET give(v) ==
          IF v.thrown THEN v
          ELSE Returned([email |-> email, name |-> name, recipientId |-> recipientId,
                         routingOrder |-> IF routingOrder = "undefined" THEN "1"
                                          ELSE routingOrder])
    IN give(validateFields(
         << [fieldName |-> << "C", "C", " ", "e", "m", "a", "i", "l" >>,
              value |-> email, validationType |-> "email"],
            [fieldName |-> << "C", "C", " ", "n", "a", "m", "e" >>,
              value |-> name, validationType |-> "required"] >>))

\* buildTemplateRole: three validations, then the role object
buildTemplateRole(email, name, roleName) ==
    LET give(v) ==
          IF v.thrown THEN v
          ELSE Returned([email |-> email, name |-> name, roleName |-> roleName])
    IN give(validateFields(
         << [fieldName |-> << "R", "e", "c", "i", "p", "i", "e", "n", "t", " ", "e", "m", "a", "i", "l" >>,
              value |-> email, validationType |-> "email"],
            [fieldName |-> << "R", "e", "c", "i", "p", "i", "e", "n", "t", " ", "n", "a", "m", "e" >>,
              value |-> name, validationType |-> "required"],
            [fieldName |-> << "R", "o", "l", "e", " ", "n", "a", "m", "e" >>,
              value |-> roleName, validationType |-> "required"] >>))

\* a caller applies buildSigner
SignerCall(email, name, recipientId, routingOrder) ==
    /\ fn.name = "none"
    /\ fn' = [name |-> "buildSigner",
              args |-> [email |-> email, name |-> name],
              out  |-> buildSigner(email, name, recipientId, routingOrder)]
    /\ UNCHANGED <<now, tokenCache, lastW, calls, issued, req, pag, hook>>

\* a caller applies buildCarbonCopy
CarbonCopyCall(email, name, recipientId, routingOrder) ==
    /\ fn.name = "none"
    /\ fn' = [name |-> "buildCarbonCopy",
              args |-> [email |-> email, name |-> name],
              out  |-> buildCarbonCopy(email, name, recipientId, routingOrder)]
    /\ UNCHANGED <<now, tokenCache, lastW, calls, issued, req, pag, hook>>

\* a caller applies buildTemplateRole
TemplateRoleCall(email, name, roleName) ==
    /\ fn.name = "none"
    /\ fn' = [name |-> "buildTemplateRole",
              args |-> [email |-> email, name |-> name],
              out  |-> buildTemplateRole(email, name, roleName)]
    /\ UNCHANGED <<now, tokenCache, lastW, calls, issued, req, pag, hook>>

\* the call is over
FnReturn ==
    /\ fn.name # "none"
    /\ fn' = IdleFn
    /\ UNCHANGED <<now, tokenCache, lastW, calls, issued, req, pag, hook>>

\* one helper call at a time (a call starts only when none is in progress).
\* verifyWebhookSignature gets no payload or one of four, and no signature,
\* two that are no digest of anything, or the digest of a payload under a
\* secret; validateField gets undefined, null, values that are not strings,
\* the empty string and texts that pass or fail each format
NextHelpers ==
    \/ LET payloads   == {EmptyPayload} \cup
                         { Payload(ev, NoTimestamp, fmt) :
                             ev \in {"envelope-completed", "envelope-sent"},
                             fmt \in {"compact", "spaced"} }
           signatures == {NoSignature, [len |-> DIGEST_B64_LEN, of |-> <<"junk">>],
                          [len |-> 7, of |-> <<"junk">>]} \cup
                         { HmacBase64(s, p) : s \in Secrets, p \in payloads }
       IN \E payload \in payloads, signature \in signatures, secret \in Secrets :
             VerifyCall(payload, signature, secret)
    \/ \E u \in UrlInputs, requireHttps \in BOOLEAN : UrlCall(u, requireHttps)
    \/ LET values ==
             { [type |-> t, text |-> <<>>] :
                 t \in {"undefined", "null", "number", "boolean", "string"} }
             \cup
             { [type |-> "string", text |-> s] :
                 s \in { << "u", "s", "e", "r", "@", "e", "x", "a", "m", "p",
                            "l", "e", ".", "c", "o", "m" >>,
                         << "i", "n", "v", "a", "l", "i", "d" >>,
                         << "n", "o", "@", "d", "o", "m", "a", "i", "n" >>,
                         << "@", "e", "x", "a", "m", "p", "l", "e", ".", "c",
                            "o", "m" >>,
                         << "a", "@", "b", "-", ".", "c", "o", "m" >>,
                         << "a", ".", "b", "+", "c", "@", "x", "-", "y", ".",
                            "e", "x", "a", "m", "p", "l", "e", ".", "o", "r",
                            "g" >>,
                         << "1", "2", "3", "4", "5", "6", "7", "8", "-", "1",
                            "2", "3", "4", "-", "1", "2", "3", "4", "-", "1",
                            "2", "3", "4", "-", "1", "2", "3", "4", "5", "6",
                            "7", "8", "9", "a", "b", "c" >>,
                         << "A", "B", "C", "D", "E", "F", "1", "2", "-", "3",
                            "4", "5", "6", "-", "7", "8", "9", "0", "-", "A",
                            "B", "C", "D", "-", "E", "F", "1", "2", "3", "4",
                            "5", "6", "7", "8", "9", "0" >>,
                         << "1", "2", "3", "4", "5", "6", "7", "8", "-", "1",
                            "2", "3", "4", "-", "1", "2", "3", "4", "-", "1",
                            "2", "3", "4" >>,
                         << "1", "2", "3", "4", "5", "6", "7", "8", "-", "1",
                            "2", "3", "4", "-", "1", "2", "3", "4", "-", "1",
                            "2", "3", "4", "-", "1", "2", "3", "4", "5", "6",
                            "7", "8", "9", "a", "b", "g" >>,
                         << "S", "G", "V", "s", "b", "G", "8", "g", "V", "2",
                            "9", "y", "b", "G", "Q", "=" >>,
                         << "Y", "W", "J", "j", "Z", "G", "V", "m" >>,
                         << "n", "o", "t", " ", "v", "a", "l", "i", "d", " ",
                            "b", "a", "s", "e", "6", "4", "!", "!", "!" >>,
                         << "A" >>,
                         << "=", "=" >>,
                         << "Q", "Q", "=", "=", "=" >>,
                         << "h", "t", "t", "p", "s", ":", "/", "/", "e", "x",
                            "a", "m", "p", "l", "e", ".", "c", "o", "m" >>,
                         << "h", "t", "t", "p", ":", "/", "/", "e", "x", "a",
                            "m", "p", "l", "e", ".", "c", "o", "m" >>,
                         << "h", "t", "t", "p", ":", "/", "/", "l", "o", "c",
                            "a", "l", "h", "o", "s", "t", ":", "3", "0", "0",
                            "0" >>,
                         << "f", "t", "p", ":", "/", "/", "f", "i", "l", "e",
                            "s", ".", "e", "x", "a", "m", "p", "l", "e", ".",
                            "c", "o", "m" >>,
                         << "2", "0", "2", "4", "-", "0", "1", "-", "1", "5" >>,
                         << "2", "0", "2", "4", "-", "0", "1", "-", "1", "5",
                            "T", "1", "0", ":", "3", "0", ":", "0", "0", "Z" >>,
                         << "0", "1", "/", "1", "5", "/", "2", "0", "2", "4" >>,
                         << "2", "0", "2", "4", "-", "1", "3", "-", "4", "5" >>,
                         << "2", "0", "2", "4" >> } }
       IN \E fieldName \in { << "e", "m", "a", "i", "l" >>, << "i", "d" >> },
             value \in values,
             validationType \in {"email", "uuid", "base64", "url", "httpsUrl",
                                 "date", "required"} :
             ValidateCall(fieldName, value, validationType)
    \/ \E environment \in {"demo", "production", "unknown", ""},
          region \in {"undefined", "", "na", "eu", "au", "ca", "demo", "xx"} :
          BaseUrlCall(environment, region)
    \/ \E environment \in {"demo", "production", "unknown", ""},
          region \in {"undefined", "", "na", "eu", "au", "ca", "demo", "xx"} :
          CredentialsCall(environment, region)
    \/ LET str(s)  == [type |-> "string", text |-> s]
           emails  == { str(<<>>),
                        str(<< "t", "e", "s", "t", "@", "e", "x", "a", "m", "p", "l", "e", ".", "c", "o", "m" >>),
                        str(<< "c", "c", "@", "e", "x", "a", "m", "p", "l", "e", ".", "c", "o", "m" >>),
                        str(<< "i", "n", "v", "a", "l", "i", "d" >>),
                        str(<< "n", "o", "@", "d", "o", "m", "a", "i", "n" >>) }
           names   == { str(<<>>),
                        str(<< "J", "o", "h", "n", " ", "D", "o", "e" >>) }
           roles   == { str(<<>>), str(<< "S", "i", "g", "n", "e", "r" >>) }
       IN \/ \E email \in emails, name \in names, routingOrder \in {"undefined", "2"} :
                SignerCall(email, name, "1", routingOrder)
          \/ \E email \in emails, name \in names, routingOrder \in {"undefined", "2"} :
                CarbonCopyCall(email, name, "2", routingOrder)
          \/ \E email \in emails, name \in names, roleName \in roles :
                TemplateRoleCall(email, name, roleName)
    \/ FnReturn

EmptyCache == [k \in {} |-> 0]

InitToken ==
    /\ now = 0
    /\ tokenCache = EmptyCache
    /\ calls = [p \in Procs |-> IdleCall]
    /\ lastW = EmptyCache
    /\ issued = <<>>

Init ==
    /\ InitToken
    /\ req = IdleReq
    /\ pag = IdlePag
    /\ hook = IdleHook
    /\ fn = IdleFn

NextToken(P, E, D) ==
    \/ \E p \in P, c \in Creds : CallStart(p, c[1], c[2], c[3])
    \/ \E p \in P : JwtSigned(p)
    \/ \E p \in P, hasExp \in BOOLEAN, e \in E : TokenIssued(p, hasExp, e)
    \/ \E p \in P, kind \in {"notok", "badjson", "notoken"}, json \in BOOLEAN, desc \in D :
          TokenRefused(p, kind, json, desc)
    \/ \E p \in P : TokenResponse(p)
    \/ \E p \in P : CallFinish(p)
    \/ Tick

NextTokenAll == NextToken(Procs, ExpiresInRace, ErrorDescriptionsRace)

SpecToken == Init /\ [][NextTokenAll]_vars

\* the calls of one caller, serialized: each call ends before the next starts
NextTokenSerial == NextToken({1}, ExpiresInVals, ErrorDescriptions)

SpecTokenSerial == Init /\ [][NextTokenSerial]_vars

SpecRequest == Init /\ [][NextRequest]_vars

\* the event loop runs every pending continuation and timer of the call
SpecRequestFair ==
    Init /\ [][NextRequestFair]_vars
         /\ WF_vars(\E a \in RequestArgsFair : ReqStart(a[1], a[2]))
         /\ WF_vars(HttpOk \/ \E e \in Errors : HttpFail(e))
         /\ WF_vars(SleepDone)

SpecRequestText == Init /\ [][NextRequestText]_vars

SpecPaginate == Init /\ [][NextPaginate]_vars

SpecWebhook == Init /\ [][NextWebhook]_vars

SpecHelpers == Init /\ [][NextHelpers]_vars

----------------------------------------------------------------------------
(* Properties of the token cache *)

InFlight(p) == calls[p].pc \in {"signing", "fetching", "responded"}

KeyOf(c) == CacheKey(c.ik, c.uid, c.host)

\* C1: a call returns the cached token without an exchange only if the entry
\* exists and its expiresAt minus the current time is strictly greater than
\* 300000 ms; in every other case the call goes on to a token exchange, and
\* what it then returns is the token that exchange newly issued.
C1_CachedOnlyWhenFresh ==
    [][\A p \in Procs :
         LET c   == calls[p]
             d   == calls'[p]
             key == KeyOf(d)
             fresh == key \in DOMAIN tokenCache
                      /\ tokenCache[key].expiresAt - now > 300000
         IN /\ (c.pc = "idle" /\ d.pc = "done")
                 => fresh /\ d.result = tokenCache[key].accessToken /\ d.nreq = 0
            /\ (c.pc = "idle" /\ d.pc # "idle" /\ ~fresh) => d.pc = "signing"
            /\ (c.pc # "idle" /\ c.pc # "done" /\ d.pc = "done")
                 => /\ c.pc = "responded" /\ d.nreq = 1
                    /\ d.result = c.resp.access_token
            /\ (c.pc = "fetching" /\ d.pc = "responded" /\ d.resp.kind = "ok")
                 => /\ d.resp.access_token = Len(issued) + 1
                    /\ Len(issued') = Len(issued) + 1
                    /\ \A k \in DOMAIN tokenCache :
                         tokenCache[k].accessToken # d.resp.access_token
      ]_vars

\* C1 witness: a call has gone on to sign a new assertion although the cache
\* holds an entry for its key, because that entry expires in exactly 300000 ms.
C1_Witness ==
    \E p \in Procs :
      /\ calls[p].pc = "signing"
      /\ KeyOf(calls[p]) \in DOMAIN tokenCache
      /\ tokenCache[KeyOf(calls[p])].expiresAt - now = 300000

\* C8: a token obtained for one (integrationKey, userId, authServer) triple is
\* never returned to a caller using a different triple.
C8_NoTokenAcrossTriples ==
    \A p \in Procs :
      calls[p].pc = "done"
        => /\ calls[p].result \in 1..Len(issued)
           /\ issued[calls[p].result] =
                [iss |-> calls[p].ik, sub |-> calls[p].uid, aud |-> calls[p].host]

\* C9: with interleaved calls, every call that returns has a token that the
\* token endpoint issued under the call's cache key, no call makes more than
\* one token request, and once no call is in flight every cache entry holds
\* the token of the last write made under its key.
C9_RaceIsBenign ==
    /\ \A p \in Procs :
         /\ calls[p].nreq <= 1
         /\ calls[p].pc = "done"
              => /\ calls[p].result \in 1..Len(issued)
                 /\ LET t == issued[calls[p].result]
                    IN CacheKey(t.iss, t.sub, t.aud) = KeyOf(calls[p])
    /\ (\A p \in Procs : ~InFlight(p))
         => /\ DOMAIN tokenCache = DOMAIN lastW
            /\ \A k \in DOMAIN lastW : tokenCache[k].accessToken = lastW[k].token

\* C9 witness: two calls for one key raced, both exchanged, both returned, and
\* the cache holds the second token written.
C9_Witness ==
    /\ calls[1].pc = "done" /\ calls[2].pc = "done"
    /\ calls[1].nreq = 1 /\ calls[2].nreq = 1
    /\ KeyOf(calls[1]) = KeyOf(calls[2])
    /\ calls[1].result # calls[2].result
    /\ tokenCache[KeyOf(calls[1])].accessToken = 2

----------------------------------------------------------------------------
(* Properties of docuSignApiRequest *)

\* the HTTP status of a failed attempt (0: the failure carries none)
FailStatus(f) == f.status

Is5xxOrTransport(f) ==
    \/ FailStatus(f) \in 500..599
    \/ FailStatus(f) = 0 /\ f.code \in {"ECONNRESET", "ETIMEDOUT", "ECONNREFUSED"}

Finished == req.pc \in {"returned", "raised"}

\* C2: a call makes at most 4 HTTP attempts and always finishes: it returns the
\* response of a successful attempt or raises NodeApiError.
C2_TerminatesWithin4 ==
    /\ [](req.httpCalls <= 4)
    /\ [](req.pc = "returned"
            => req.result = "response" /\ req.httpCalls = Len(req.fails) + 1)
    /\ [](req.pc = "raised"
            => req.thrown = "NodeApiError" /\ req.httpCalls = Len(req.fails))
    /\ ((req.pc \in {"attempt", "sleeping"}) ~> Finished)

\* C2 witness: the call raised after its 4th HTTP attempt.
C2_Witness == req.pc = "raised" /\ req.httpCalls = 4

\* C4: an attempt that fails with a 4xx status other than 429 is the last
\* attempt of the call: the call raises at once, without a sleep after it.
C4_ClientErrorNoRetry ==
    \A i \in 1..Len(req.fails) :
      (FailStatus(req.fails[i]) \in 400..499 /\ FailStatus(req.fails[i]) # 429)
        => /\ i = Len(req.fails)
           /\ req.pc = "raised"
           /\ req.httpCalls = i
           /\ Len(req.sleeps) = i - 1
           /\ req.pending = 0

\* C4 witness: a single 404: one HTTP call, no sleep, raised.
C4_Witness ==
    /\ req.pc = "raised" /\ req.httpCalls = 1 /\ req.sleeps = <<>>
    /\ Len(req.fails) = 1 /\ FailStatus(req.fails[1]) = 404

\* the number a header text stands for, for the header texts the server
\* sends here (0 also for a text that is not a number)
HeaderSeconds(h) == CASE h = <<"2">> -> 2 [] h = <<"9">> -> 9 [] OTHER -> 0

\* the header is absent or its text is a decimal number
WellFormed(h) == h \in { <<>>, <<"0">>, <<"2">>, <<"9">> }

BackoffTable == <<1000, 2000, 4000>>

\* C6: when every failed attempt of the call is a 5xx or an
\* ECONNRESET/ETIMEDOUT/ECONNREFUSED, the sleeps before the 1st, 2nd and 3rd
\* retry are 1000, 2000 and 4000 ms, and the call does not raise before its
\* 4th attempt has failed.
C6_ExponentialBackoff ==
    (\A i \in 1..Len(req.fails) : Is5xxOrTransport(req.fails[i]))
      => /\ Len(req.sleeps) <= 3
         /\ \A i \in 1..Len(req.sleeps) : req.sleeps[i] = BackoffTable[i]
         /\ req.pc = "sleeping"
              => Len(req.sleeps) < 3 /\ req.pending = BackoffTable[Len(req.sleeps) + 1]
         /\ req.pc = "raised" => Len(req.fails) = 4 /\ Len(req.sleeps) = 3

\* C6 witness: three retries after 5xx/transport failures, slept 1000, 2000, 4000.
C6_Witness ==
    /\ req.sleeps = <<1000, 2000, 4000>>
    /\ \A i \in 1..Len(req.fails) : Is5xxOrTransport(req.fails[i])
    /\ \E i \in 1..Len(req.fails) : req.fails[i].code = "ECONNRESET"
    /\ \E i \in 1..Len(req.fails) : FailStatus(req.fails[i]) = 503

All500(n) ==
    /\ Len(req.fails) >= n
    /\ \A i \in 1..n : FailStatus(req.fails[i]) = 500

\* C7 as stated: three consecutive 500 responses exhaust the retries: the call
\* raises NodeApiError after the third and makes no further attempt.
C7_Three500sRaise ==
    All500(3) => /\ req.httpCalls = 3
                 /\ req.pc = "raised"
                 /\ req.thrown = "NodeApiError"

\* C7 amended: four consecutive 500 responses (the first attempt and its 3
\* retries) exhaust the retries and the call then raises NodeApiError; after
\* only three consecutive 500s the call sleeps and makes a 4th attempt.
C7_Four500sRaise ==
    /\ (All500(4) /\ Len(req.fails) = 4)
         => req.httpCalls = 4 /\ req.pc = "raised" /\ req.thrown = "NodeApiError"
    /\ (All500(3) /\ Len(req.fails) = 3)
         => \/ req.pc = "sleeping" /\ req.httpCalls = 3
            \/ req.pc = "attempt" /\ req.httpCalls = 3 /\ Len(req.sleeps) = 3
            \/ req.pc = "returned" /\ req.httpCalls = 4

\* C7 witness: four 500s in a row, raised.
C7_Witness ==
    /\ All500(4) /\ req.pc = "raised" /\ req.thrown = "NodeApiError"
    /\ req.httpCalls = 4

----------------------------------------------------------------------------
(* Properties of the webhook handler *)

\* the request carried a signature header, a secret is configured, and
\* verifyWebhookSignature accepts the header for the body the handler signs
Accepted(r) ==
    /\ SigOf(r).len # 0
    /\ r.credsOk /\ r.webhookSecret # ""
    /\ SigOf(r) = HmacBase64(r.webhookSecret, Stringify(ParseBody(Payload(r.event, r.generated, r.fmt))))

\* C3: with Verify Signature enabled, workflow data or the 200 filtered
\* response is given only to an accepted request; every other request is
\* answered 401 or 500 and emits nothing.
C3_OnlyVerifiedRequestsPass ==
    (hook.pc = "answered" /\ hook.request.verifySignature)
      => LET r == hook.request
             a == hook.response
         IN /\ (a.workflow \/ a.filtered) => Accepted(r)
            /\ ~Accepted(r) => /\ a.status \in {401, 500}
                               /\ ~a.workflow /\ ~a.filtered
                               /\ a.error # ""

\* C3 witness: verification is on and an accepted request emitted workflow
\* data.
C3_Witness ==
    /\ hook.pc = "answered" /\ hook.request.verifySignature
    /\ hook.response.workflow
    /\ Accepted(hook.request)

----------------------------------------------------------------------------
(* Properties of the token endpoint's error message *)

\* C11: when the token endpoint answers with a non-success status, the
\* raised error's message is exactly 'DocuSign authentication failed' unless
\* the server's error_description is one of consent_required, invalid_grant,
\* invalid_request; any other description never appears in the message.
C11_OnlyListedDescriptionsForwarded ==
    (calls[1].pc = "failed" /\ calls[1].resp.kind = "notok")
      => LET d      == calls[1].resp.error_description
             listed == calls[1].resp.json /\ d \in safeErrors
         IN /\ ~listed => calls[1].error = AUTH_FAILED
            /\ (d # <<>> /\ ~listed) => ~Includes(calls[1].error, d)

----------------------------------------------------------------------------
(* Properties of the message of the error docuSignApiRequest raises *)

\* the messages getErrorMessage takes from its own text, not from the error
FixedMessages ==
    { ERROR_MESSAGES[s] : s \in DOMAIN ERROR_MESSAGES }
      \cup { CHECK_CREDENTIALS, UNKNOWN_ERROR }

\* C12: no message raised by docuSignApiRequest carries text of the failing
\* response or error that contains 'token', 'key' or 'secret' in any case:
\* a raised message that names one of them is one of the handler's own fixed
\* messages, whether the text came from the response body or from the error.
C12_NoSecretTextForwarded ==
    (req.pc = "raised" /\ MentionsSecret(req.message))
      => req.message \in FixedMessages

\* C13: a raised message that is derived from the response's own error code
\* and message is at most 200 characters long.
C13_BodyMessageAtMost200 ==
    (req.pc = "raised" /\ req.lastError.bodyMessage # <<>>)
      => Len(req.message) <= MAX_MESSAGE_LEN

----------------------------------------------------------------------------
(* Properties of docuSignApiRequestAllItems *)

\* every response so far reported totalSetSize = N and the position of the
\* last item it carried
Consistent == pag.modes \subseteq {"ok"}

\* ceil(n / p)
Ceil(n, p) == (n + p - 1) \div p

\* C14: against a server holding N >= 1 items that reports totalSetSize = N
\* and a consistent endPosition, with page size P and no maxItems, a call
\* that returns has issued exactly ceil(N/P) requests, with start_position
\* 0, P, 2P, ..., and returns exactly the N items in server order.
C14_AllPagesInOrder ==
    (pag.pc = "returned" /\ pag.n >= 1 /\ ~pag.hasMaxItems /\ Consistent)
      => /\ Len(pag.requests) = Ceil(pag.n, pag.pageSize)
         /\ \A i \in 1..Len(pag.requests) :
              pag.requests[i].start_position = (i - 1) * pag.pageSize
         /\ pag.result = ItemsAt(0, pag.n - 1)

\* C14 witness: 5 items in pages of 2 (the proportions of 250 items in pages
\* of 100): three requests at offsets 0, 2, 4 and all 5 items returned.
C14_Witness ==
    /\ pag.pc = "returned" /\ ~pag.hasMaxItems /\ Consistent
    /\ pag.n = 5 /\ pag.pageSize = 2
    /\ Len(pag.requests) = 3
    /\ pag.requests[3].start_position = 4
    /\ pag.result = <<1, 2, 3, 4, 5>>

LastSaidNoMore ==
    /\ pag.last.seen
    /\ pag.last.nan \/ pag.last.endPosition >= pag.last.totalSetSize - 1

----------------------------------------------------------------------------
(* Properties of the webhook handler's responses *)

\* C18: with verification enabled, a request without the signature header is
\* answered 401, also when no secret is configured (the header is checked
\* first); a request with a header is answered 500 when no webhook secret is
\* configured; and a request whose header does not match the signature
\* computed with the configured secret is answered 401.
C18_StatusOfRejections ==
    (hook.pc = "answered" /\ hook.request.verifySignature)
      => LET r        == hook.request
             a        == hook.response
             computed == HmacBase64(r.webhookSecret,
                                    Stringify(ParseBody(Payload(r.event, r.generated, r.fmt))))
         IN /\ SigOf(r).len = 0
                 => a.status = 401 /\ a.error = "Missing signature header"
            /\ (SigOf(r).len # 0 /\ r.credsOk /\ r.webhookSecret = "")
                 => /\ a.status = 500
                    /\ a.error = "Webhook secret not configured in credentials"
            /\ (SigOf(r).len # 0 /\ r.credsOk /\ r.webhookSecret # "" /\ SigOf(r) # computed)
                 => a.status = 401 /\ a.error = "Invalid signature"
            /\ a.status \in {401, 500} => ~a.workflow /\ ~a.filtered

\* C18 witness: verification is on, no secret is configured and the request
\* has no signature header; the answer is 401.
C18_Witness ==
    /\ hook.pc = "answered" /\ hook.request.verifySignature
    /\ hook.request.credsOk /\ hook.request.webhookSecret = ""
    /\ hook.request.sigKind = "none"
    /\ hook.response.status = 401

\* C19: with verification enabled and after the signature has passed, an
\* event whose generation timestamp is more than maxAgeMs older than the
\* current time is rejected and does not trigger the workflow; an event
\* without a timestamp is accepted.
C19_ExpiredEventsRejected ==
    (hook.pc = "answered" /\ hook.request.verifySignature /\ Accepted(hook.request))
      => LET g == hook.request.generated
         IN /\ (g.has /\ now - g.at > maxAgeMs)
                 => ~hook.response.workflow /\ hook.response.status # 200
            /\ (~g.has /\ hook.request.event \in hook.request.selectedEvents)
                 => hook.response.workflow

\* the request was not answered by the signature block: verification is off,
\* or the request is an accepted one
PassedSignature(r) == ~r.verifySignature \/ Accepted(r)

\* C20: the trigger emits workflow data only for an event whose type is in
\* the selected events set; an event whose type is not in that set is
\* answered 200 with {received: true, filtered: true} and emits nothing.
C20_OnlySelectedEventsEmit ==
    (hook.pc = "answered" /\ PassedSignature(hook.request))
      => LET r == hook.request
             a == hook.response
         IN /\ a.workflow => r.event \in r.selectedEvents
            /\ r.event \notin r.selectedEvents
                 => a.status = 200 /\ a.filtered /\ ~a.workflow

\* C20 (amended): when the selected events set is not empty, the trigger
\* emits workflow data only for an event whose type is in the set, and a
\* request that passed the signature block with a type outside the set is
\* answered 200 with {received: true, filtered: true} and emits nothing;
\* when the set is empty, nothing is filtered and every such request emits
\* workflow data.
C20_SelectedEventsEmitUnlessNoneSelected ==
    (hook.pc = "answered" /\ PassedSignature(hook.request))
      => LET r == hook.request
             a == hook.response
         IN IF r.selectedEvents # {}
            THEN /\ a.workflow => r.event \in r.selectedEvents
                 /\ r.event \notin r.selectedEvents
                      => a.status = 200 /\ a.filtered /\ ~a.workflow
            ELSE a.workflow /\ ~a.filtered /\ a.event = r.event

\* C20 witness: envelope-sent arrives while only envelope-completed is
\* selected; the answer is 200 filtered and nothing is emitted.
C20_Witness ==
    /\ hook.pc = "answered" /\ PassedSignature(hook.request)
    /\ hook.request.selectedEvents = {"envelope-completed"}
    /\ hook.request.event = "envelope-sent"
    /\ hook.response.status = 200 /\ hook.response.filtered
    /\ ~hook.response.workflow

----------------------------------------------------------------------------
(* Properties of the pure helpers *)

\* C21: verifyWebhookSignature returns false, and does not throw, when the
\* payload, the signature or the secret is empty, and also when the
\* signature's length differs from the length of the computed digest.
C21_EmptyOrWrongLengthIsFalse ==
    fn.name = "verifyWebhookSignature"
      => LET a == fn.args
         IN (\/ a.payload = EmptyPayload
             \/ a.signature.len = 0
             \/ a.secret = ""
             \/ a.signature.len # HmacBase64(a.secret, a.payload).len)
              => fn.out = Returned(FALSE)

\* C21 witness: a signature shorter than the digest was compared for a
\* non-empty payload under a non-empty secret, and false came back.
C21_Witness ==
    /\ fn.name = "verifyWebhookSignature"
    /\ fn.args.payload # EmptyPayload /\ fn.args.secret # ""
    /\ fn.args.signature.len = 7
    /\ fn.out = Returned(FALSE)

\* C22: for a non-empty payload and a non-empty secret the call is true for
\* the base64 HMAC-SHA256 of that payload under that secret and false for
\* every other signature (the HMAC of another payload or secret included);
\* with an empty secret it is false whatever the signature.
C22_TrueExactlyForOwnHmac ==
    fn.name = "verifyWebhookSignature"
      => LET a == fn.args
         IN /\ ~fn.out.thrown
            /\ (a.payload # EmptyPayload /\ a.secret # "")
                 => (fn.out.value <=> a.signature = HmacBase64(a.secret, a.payload))
            /\ a.secret = "" => ~fn.out.value

\* C22 witness: the HMAC of a non-empty payload under a non-empty secret was
\* verified against that payload and secret, and true came back.
C22_Witness ==
    /\ fn.name = "verifyWebhookSignature"
    /\ fn.args.payload = Payload("envelope-sent", NoTimestamp, "spaced")
    /\ fn.args.secret = "s2"
    /\ fn.args.signature = HmacBase64("s2", fn.args.payload)
    /\ fn.out = Returned(TRUE)

\* the host a URL was written from is one that isValidUrl is to refuse:
\* localhost, 127.0.0.1, 0.0.0.0, the IPv6 loopback, or an address in
\* 10.0.0.0/8, 172.16.0.0/12, 192.168.0.0/16 or 169.254.0.0/16
InternalHost(h) ==
    \/ h.kind = "name" /\ LowerCase(h.text) = <<"l", "o", "c", "a", "l", "h", "o", "s", "t">>
    \/ h.kind = "ip6" /\ h.pieces = <<0, 0, 0, 0, 0, 0, 0, 1>>
    \/ /\ h.kind = "ip4"
       /\ \/ h.ip = <<127, 0, 0, 1>>
          \/ h.ip = <<0, 0, 0, 0>>
          \/ h.ip[1] = 10
          \/ h.ip[1] = 172 /\ h.ip[2] >= 16 /\ h.ip[2] <= 31
          \/ h.ip[1] = 192 /\ h.ip[2] = 168
          \/ h.ip[1] = 169 /\ h.ip[2] = 254

\* C24: whatever the scheme and requireHttps, isValidUrl is false for every
\* URL whose host is localhost, 127.0.0.1, 0.0.0.0, ::1, or an address in
\* 10.0.0.0/8, 172.16.0.0/12, 192.168.0.0/16 or 169.254.0.0/16, in whatever
\* notation the URL spells that host.
C24_InternalHostsRefused ==
    (fn.name = "isValidUrl" /\ InternalHost(fn.args.host)) => fn.out = Returned(FALSE)

\* C24 witness: an https URL spelling 169.254.0.1 as 169.16646145 was
\* refused although requireHttps was met.
C24_Witness ==
    /\ fn.name = "isValidUrl"
    /\ fn.args.scheme = <<"h", "t", "t", "p", "s">> /\ fn.args.requireHttps
    /\ fn.args.host.kind = "ip4" /\ fn.args.host.ip = <<169, 254, 0, 1>>
    /\ fn.args.host.text = <<"1", "6", "9", ".", "1", "6", "6", "4", "6", "1", "4", "5">>
    /\ fn.out = Returned(FALSE)

\* C25: isValidUrl is true only for a URL of scheme http or https, and with
\* requireHttps only for scheme https.
C25_OnlyHttpSchemes ==
    (fn.name = "isValidUrl" /\ fn.out.value)
      => /\ fn.args.scheme \in {<<"h", "t", "t", "p">>, <<"h", "t", "t", "p", "s">>}
         /\ fn.args.requireHttps => fn.args.scheme = <<"h", "t", "t", "p", "s">>

\* C25 witness: an ftp URL of a public host was refused, and so was an http
\* URL of a public host under requireHttps (one state shows the second).
C25_Witness ==
    /\ fn.name = "isValidUrl"
    /\ fn.args.scheme = <<"h", "t", "t", "p">> /\ fn.args.requireHttps
    /\ fn.args.host.kind = "name" /\ ~InternalHost(fn.args.host)
    /\ isValidUrl(fn.args.url, FALSE)
    /\ fn.out = Returned(FALSE)

\* value is undefined, null or ''
EmptyValue(value) ==
    \/ value.type \in {"undefined", "null"}
    \/ value.type = "string" /\ value.text = <<>>

\* the format check that validateField applies for a kind
FormatCheck(validationType, s) ==
    CASE validationType = "email"    -> isValidEmail(s)
      [] validationType = "uuid"     -> isValidUUID(s)
      [] validationType = "base64"   -> isValidBase64(s)
      [] validationType = "url"      -> isValidUrl(s, FALSE)
      [] validationType = "httpsUrl" -> isValidUrl(s, TRUE)
      [] validationType = "date"     -> isValidIsoDate(s)

\* C23: with kind 'required', validateField throws '<fieldName> is required'
\* exactly when the value is undefined, null or ''; with every other kind it
\* returns when the value is undefined, null or '', and otherwise throws
\* exactly when the value is not a string or fails the kind's format check.
C23_ValidateFieldThrowsExactly ==
    fn.name = "validateField"
      => LET a == fn.args
         IN IF a.validationType = "required"
            THEN /\ fn.out.thrown <=> EmptyValue(a.value)
                 /\ fn.out.thrown => fn.out.value = a.fieldName \o <<" ", "i", "s", " ", "r", "e", "q", "u", "i", "r", "e", "d">>
            ELSE /\ EmptyValue(a.value) => ~fn.out.thrown
                 /\ ~EmptyValue(a.value)
                      => (fn.out.thrown <=>
                            (a.value.type # "string"
                               \/ ~FormatCheck(a.validationType, a.value.text)))

\* C23 witness: kind 'email' returned for the empty string although the
\* empty string is no email address.
C23_Witness ==
    /\ fn.name = "validateField"
    /\ fn.args.validationType = "email"
    /\ fn.args.value = [type |-> "string", text |-> <<>>]
    /\ ~isValidEmail(fn.args.value.text)
    /\ fn.out = Returned("undefined")

\* C29: getBaseUrl gives the demo base URL whenever environment is 'demo',
\* whatever the region; the region's base URL when environment is not 'demo'
\* and the region is eu, au or ca (na: the North America URL); and the North
\* America production base URL for every other input (unknown environments,
\* unknown, empty or missing regions).
C29_BaseUrlByEnvironmentAndRegion ==
    fn.name = "getBaseUrl"
      => LET e == fn.args.environment
             r == fn.args.region
         IN /\ ~fn.out.thrown
            /\ fn.out.value =
                 (CASE e = "demo" -> "https://demo.docusign.net/restapi/v2.1"
                    [] e # "demo" /\ r = "eu" -> "https://eu.docusign.net/restapi/v2.1"
                    [] e # "demo" /\ r = "au" -> "https://au.docusign.net/restapi/v2.1"
                    [] e # "demo" /\ r = "ca" -> "https://ca.docusign.net/restapi/v2.1"
                    [] OTHER -> "https://na1.docusign.net/restapi/v2.1")

\* C29 witness: environment 'demo' with region 'eu' got the demo base URL.
C29_Witness ==
    /\ fn.name = "getBaseUrl"
    /\ fn.args.environment = "demo" /\ fn.args.region = "eu"
    /\ fn.out = Returned(API_BASE_URL_DEMO)

----------------------------------------------------------------------------
(* Further properties of the token exchange *)

\* C26: the assertion a call has built for its (integrationKey, userId,
\* authServer) has header {typ: JWT, alg: RS256}, payload iss = integrationKey,
\* sub = userId, aud = authServer, exp = iat + 3600 and scope 'signature
\* impersonation', and is header.payload.signature: the base64url header, a
\* dot, the base64url payload, a dot, and the RS256 signature of the first
\* three.
C26_JwtClaimsAndShape ==
    \A p \in Procs :
       calls[p].jwt # NoJwt
         => LET j == calls[p].jwt
                a == j.assertion
            IN /\ j.typ = "JWT" /\ j.alg = "RS256"
               /\ j.iss = calls[p].ik /\ j.sub = calls[p].uid /\ j.aud = calls[p].host
               /\ j.exp = j.iat + 3600
               /\ j.scope = "signature impersonation"
               /\ Len(a) = 5 /\ a[2] = "." /\ a[4] = "."
               /\ a[1] = [base64url |-> [typ |-> "JWT", alg |-> "RS256"]]
               /\ a[3] = [base64url |->
                            [iss |-> calls[p].ik, sub |-> calls[p].uid,
                             aud |-> calls[p].host, iat |-> j.iat,
                             exp |-> j.iat + 3600,
                             scope |-> "signature impersonation"]]
               /\ a[5] = [rs256 |-> <<a[1], ".", a[3]>>]

\* C26 witness: a call has built its assertion after the clock left zero and
\* waits for the token endpoint.
C26_Witness ==
    \E p \in Procs :
       /\ calls[p].pc = "fetching"
       /\ calls[p].jwt.iat > 0
       /\ calls[p].jwt.exp = calls[p].jwt.iat + 3600
       /\ Len(calls[p].jwt.assertion) = 5

C28_CacheKeepsItsKeys ==
    [][/\ DOMAIN tokenCache \subseteq DOMAIN tokenCache'
       /\ \A k \in DOMAIN tokenCache :
            tokenCache'[k] # tokenCache[k]
              => \E p \in Procs :
                    /\ calls[p].pc = "responded" /\ calls'[p].pc = "done"
                    /\ KeyOf(calls[p]) = k
                    /\ calls[p].resp.kind = "ok"
                    /\ tokenCache'[k].accessToken = calls[p].resp.access_token
      ]_vars

\* C28 witness: the cache holds two keys; the entry of one is stale (a call
\* for that key found it unusable and is signing a new assertion) and is
\* still there.
C28_Witness ==
    /\ Cardinality(DOMAIN tokenCache) = 2
    /\ \E p \in Procs :
          /\ calls[p].pc = "signing"
          /\ KeyOf(calls[p]) \in DOMAIN tokenCache
          /\ tokenCache[KeyOf(calls[p])].expiresAt <= now + TOKEN_EXPIRY_BUFFER_MS

----------------------------------------------------------------------------
(* Further properties of the webhook handler *)

\* the signature header of request r is the base64 HMAC-SHA256 of the body as
\* it was received, under the configured secret
SignedAsReceived(r) ==
    /\ r.credsOk /\ r.webhookSecret # ""
    /\ SigOf(r) = HmacBase64(r.webhookSecret, Payload(r.event, r.generated, r.fmt))

\* C30: with verification enabled, a request whose signature header is the
\* correct base64 HMAC of the received body (the bytes as received) under
\* the configured secret is never answered 401.
C30_SignedBodyNever401 ==
    (hook.pc = "answered" /\ hook.request.verifySignature
       /\ SignedAsReceived(hook.request))
      => hook.response.status # 401

----------------------------------------------------------------------------
(* Further properties of docuSignApiRequestAllItems *)

C32_EveryIterationNearsAnExit ==
    [][(pag.pc = "waiting" /\ pag'.pc = "waiting")
         => \/ pag'.startPosition > pag.startPosition
            \/ pag.hasMaxItems /\ Len(pag'.returnData) > Len(pag.returnData)
            \/ pag.timeout > 0
      ]_vars

-----------------------------------------------------------------------------
(* Further properties of docuSignApiRequest *)

\* C33: the retry policy is the same for every HTTP method. Every attempt of
\* a call sends the options built before the loop (same method, same body),
\* at most 4 times; an attempt that failed with a 5xx status or a transport
\* reset/timeout/refusal ends the call only when it was the 4th, whatever
\* the method, so a POST, PUT or DELETE can reach the server 4 times.
C33_WritesAreResentUnchanged ==
    /\ Len(req.sent) = req.httpCalls
    /\ Len(req.sent) <= MAX_RETRIES + 1
    /\ \A i \in 1..Len(req.sent) : req.sent[i] = req.options
    /\ (req.pc = "raised" /\ Is5xxOrTransport(req.fails[Len(req.fails)]))
         => Len(req.sent) = MAX_RETRIES + 1
    /\ (req.pc = "sleeping" /\ ~(FailStatus(req.fails[Len(req.fails)]) = 429))
         => Is5xxOrTransport(req.fails[Len(req.fails)])

\* a POST with a body that failed four times with 5xx or a transport error
\* was sent four times and then raised
C33_Witness ==
    /\ req.pc = "raised"
    /\ req.options = [method |-> "POST", body |-> "data"]
    /\ req.sent = <<req.options, req.options, req.options, req.options>>
    /\ \A i \in 1..4 : Is5xxOrTransport(req.fails[i])
    /\ \E i \in 1..4 : FailStatus(req.fails[i]) = 0

-----------------------------------------------------------------------------
(* Further properties of getOrRefreshAccessToken *)

\* the token endpoint's answer is a failed exchange: a non-success status, a
\* body that does not parse, or a body without access_token
FailedExchange(resp) ==
    \/ resp.kind = "notok"
    \/ ~resp.json
    \/ resp.access_token = 0

\* C34: when the token exchange fails, getOrRefreshAccessToken raises and the
\* step leaves the token cache exactly as it was: same keys, same entries.
C34_FailedExchangeLeavesCache ==
    [][\A p \in Procs :
          (/\ calls[p].pc = "responded"
           /\ calls'[p].pc # "responded"
           /\ FailedExchange(calls[p].resp))
            => /\ calls'[p].pc = "failed"
               /\ calls'[p].error # <<>>
               /\ calls'[p].result = 0
               /\ tokenCache' = tokenCache
      ]_vars

\* a call whose exchange failed while the cache held an entry of its key that
\* was no longer fresh: the stale entry is still there
C34_Witness ==
    \E p \in Procs :
       LET key == CacheKey(calls[p].ik, calls[p].uid, calls[p].host)
       IN /\ calls[p].pc = "failed"
          /\ FailedExchange(calls[p].resp)
          /\ key \in DOMAIN tokenCache
          /\ ~CacheValid(tokenCache, key, now)
          /\ tokenCache[key] = [accessToken |-> lastW[key].token,
                                expiresAt |-> ExpiresAt(lastW[key].at, 200)]

\* C35: the wait chosen after a failed attempt that is followed by a retry.
\* With a the number of attempts the call made before the failed one (429
\* failures included), a failure other than 429 waits 1000 * 2^a ms; a 429
\* waits what its headers say or 60 s, whatever a is.
C35_BackoffCountsEveryAttempt ==
    [][(req.pc = "attempt" /\ req'.pc = "sleeping")
         => LET a  == Len(req.fails)
                f  == req'.fails[Len(req'.fails)]
                e  == req'.lastError
                ra == HeaderSeconds(e.retryAfter)
                rs == HeaderSeconds(e.rateLimitReset) - (now \div 1000)
            IN /\ a = req.httpCalls /\ a = Len(req.sleeps) /\ a < 3
               /\ FailStatus(f) # 429
                    => /\ Is5xxOrTransport(f)
                       /\ req'.pending = IF a = 0 THEN 1000
                                         ELSE IF a = 1 THEN 2000 ELSE 4000
               /\ FailStatus(f) = 429
                    => req'.pending =
                         IF ra > 0 THEN ra * 1000
                         ELSE IF HeaderSeconds(e.rateLimitReset) > 0 /\ rs > 0
                         THEN rs * 1000
                         ELSE 60000
      ]_vars

\* a 429 without headers at attempt 0 waited 60 s, a 429 with Retry-After: 2
\* at attempt 1 waited 2 s, and the 5xx or transport failure at attempt 2
\* waits 4000 ms
C35_Witness ==
    /\ req.pc = "sleeping"
    /\ Len(req.fails) = 3
    /\ FailStatus(req.fails[1]) = 429 /\ FailStatus(req.fails[2]) = 429
    /\ Is5xxOrTransport(req.fails[3])
    /\ req.sleeps = <<60000, 2000>>
    /\ req.pending = 4000

\* C36: within one call exactly one sleep lies between two consecutive HTTP
\* attempts and none follows the last one: the k-th attempt starts after
\* k - 1 completed sleeps, the 4th attempt ends the call at once (no wait, no
\* clock advance) whatever its failure, and the error raised carries the
\* message of the error of the last attempt.
C36_OneSleepBetweenAttempts ==
    [][/\ req'.httpCalls = req.httpCalls + 1
            => /\ Len(req.sleeps) = req.httpCalls
               /\ req'.sleeps = req.sleeps
               /\ now' = now
       /\ (req.pc = "sleeping" /\ req'.pc # "sleeping")
            => /\ req'.pc = "attempt"
               /\ Len(req'.sleeps) = Len(req.sleeps) + 1
               /\ req'.httpCalls = req.httpCalls
       /\ (req.pc = "attempt" /\ req.httpCalls = MAX_RETRIES /\ req'.pc # "attempt")
            => /\ req'.pc \in {"returned", "raised"}
               /\ req'.pending = 0
       /\ (req.pc = "attempt" /\ req'.pc = "raised")
            => /\ Len(req'.sleeps) = req'.httpCalls - 1
               /\ Len(req'.fails) = req'.httpCalls
               /\ req'.fails[Len(req'.fails)] =
                     [status |-> HttpStatus(req'.lastError), code |-> req'.lastError.code]
               /\ req'.thrown = "NodeApiError"
               /\ req'.message = getErrorMessage(req'.lastError)
       /\ req.pc \in {"returned", "raised"} => req' = req
      ]_vars

\* the 4th attempt failed with 429 after three waits: the call raised with
\* that error and without a fourth wait
C36_Witness ==
    /\ req.pc = "raised"
    /\ req.httpCalls = 4
    /\ Len(req.sleeps) = 3
    /\ req.pending = 0
    /\ FailStatus(req.fails[4]) = 429
    /\ Is5xxOrTransport(req.fails[3])
    /\ req.message = getErrorMessage(req.lastError)

-----------------------------------------------------------------------------
(* The hosts of one set of credentials *)

\* C37: for every environment and region of the credentials, authenticate
\* resolves an auth server without failing, and it is the demo auth host
\* (account-d.docusign.com) exactly when the base URL of the request is the
\* demo base URL.
C37_AuthAndApiSameEnvironment ==
    fn.name = "credentials"
      => /\ ~fn.out.authServer.thrown
         /\ (fn.out.authServer.value = "account-d.docusign.com")
              <=> (fn.out.baseUrl = API_BASE_URL_DEMO)

-----------------------------------------------------------------------------
(* The recipient builders *)

\* C38: buildSigner, buildCarbonCopy and buildTemplateRole return an object
\* only when the email is a valid email address (a string isValidEmail
\* accepts) and the name is a non-empty string.
C38_RecipientHasValidEmailAndName ==
    (fn.name \in {"buildSigner", "buildCarbonCopy", "buildTemplateRole"} /\ ~fn.out.thrown)
      => /\ fn.args.email.type = "string"
         /\ isValidEmail(fn.args.email.text)
         /\ ~EmptyValue(fn.args.name)

====
